---- MODULE Spec2Model ----
(***************************************************************************)
(* ShadowCircuit: onion-routing client.                                    *)
(*                                                                         *)
(* State machine of the circuit manager (src/src/circuit/mod.rs), the      *)
(* SOCKS5 proxy session (src/src/proxy/socks5.rs) and the relay selection  *)
(* of the directory client (src/src/directory/mod.rs).                     *)
(*                                                                         *)
(* The specifications share the definitions below:                         *)
(*   Spec       concurrent tasks that call create_circuit, directly or     *)
(*              from a SOCKS5 session, over a fixed consensus;             *)
(*   DirSpec    select_relay applied to every consensus of a bounded       *)
(*              family;                                                    *)
(*   CacheSpec  concurrent fetch_consensus calls on one directory client;  *)
(*   FetchSpec  the hours fetch_latest_consensus asks for;                 *)
(*   CryptoSpec encrypt_forward and decrypt_forward on one instance;       *)
(*   SocksSpec  the greeting and the request of a session, by bytes;       *)
(*   RelaySpec  the two copy tasks of the relay phase of a session;        *)
(*   CellSpec   the CREATE2 cell written and the CREATED2 payload parsed;  *)
(*   WeightSpec select_weighted on every list of a bounded family;         *)
(*   PublishSpec the two writes of a refresh of the cached consensus;      *)
(*   SuitSpec   is_relay_suitable on every set of flags and hop number;    *)
(*   ParseSpec  parse_consensus on every document of a bounded family;     *)
(*   BridgeSpec the two copy tasks of the relay phase, byte by byte.       *)
(* LiveSpec, RelayLiveSpec and ParseLiveSpec add weak fairness on the      *)
(* steps they follow.                                                      *)
(***************************************************************************)
EXTENDS Integers, Sequences, FiniteSets, TLC

\* ------------------------------------------------------------------ bounds

\* Relays in a consensus drawn by DirSpec.
MaxRelays == 2

\* Advertised bandwidth of the relays DirSpec draws: 0 or MaxBandwidth.
MaxBandwidth == 1

\* Largest num_hops a caller passes to create_circuit.
MaxHops == 2

\* The id counter is capped: no id above MaxCircuitId is allocated.
MaxCircuitId == 2

\* Client bytes a session relays.
MaxBytes == 1

\* The clock is read at multiples of half the freshness threshold, up to
\* MaxTicks of them.
MaxTicks == 3

\* Hours fetch_latest_consensus tries before it gives up (the code tries 48).
MaxHourOffsets == 2

\* Relay records ("r " blocks) in a downloaded document.
MaxRecords == 2

\* The largest value of a nonce counter: it stands for u64::MAX.
NonceMax == 3

\* Plaintexts handed to encrypt_forward.
MaxPlaintexts == 2

\* Methods in a client's greeting.
MaxMethods == 2

\* Bytes of a domain name in a client's request (besides the example's).
MaxDomainLen == 2

\* Public keys and tags drawn besides the fixed ones.
MaxKeys == 1

\* Candidates handed to select_weighted on their own.
MaxCandidates == 3

\* Their bandwidths: 0..MaxWeight.
MaxWeight == 3

\* Lines of a document parsed line by line.
MaxLines == 3

\* Bytes a peer sends in the relay phase followed byte by byte.
MaxStream == 2

\* Length of the buffer of a copy task (the code's is 8192 bytes).
BufLen == 2

\* Concurrent tasks (spawned session handlers or direct API callers).
Tasks == {"t1", "t2"}

\* ------------------------------------------------------- directory client

\* RelayFlag values read by is_relay_suitable and by the fallback filter.
Flags == {"Exit", "Guard", "Middle", "Fast", "Stable", "Running", "Valid", "BadExit"}

\* Flag sets of the relays DirSpec draws: a status part and a role part.
StatusSets == { {"Running", "Valid"}, {"Running"}, {"Running", "Valid", "BadExit"} }

RoleSets == { {}, {"Fast"}, {"Guard", "Fast"}, {"Exit", "Fast"},
              {"Fast", "Stable"}, {"Middle", "Fast", "Guard"} }

FlagSets == { s \cup r : s \in StatusSets, r \in RoleSets }

RelayDescriptors == [flags : FlagSets, bandwidth : {0, MaxBandwidth}]

\* A consensus is its relay map in iteration order (the order of
\* HashMap::values()); the position of a relay stands for its id.
Consensuses == UNION { [1..n -> RelayDescriptors] : n \in 1..MaxRelays }

\* is_relay_suitable without the test of BadExit.
is_relay_suitable_bad_exit(flags, hop) ==
    IF "Running" \notin flags \/ "Valid" \notin flags THEN FALSE
    ELSE CASE hop = 0 -> "Guard" \in flags /\ "Fast" \in flags
           [] hop = 1 -> IF "Middle" \in flags
                         THEN "Fast" \in flags
                         ELSE /\ "Fast" \in flags
                              /\ "Stable" \in flags
                              /\ "Guard" \notin flags
                              /\ "Exit" \notin flags
           [] hop = 2 -> "Exit" \in flags /\ "Fast" \in flags
           [] OTHER   -> "Fast" \in flags

is_relay_suitable(flags, hop) ==
    IF "Running" \notin flags \/ "Valid" \notin flags THEN FALSE
    ELSE IF "BadExit" \in flags THEN FALSE
    ELSE CASE hop = 0 -> "Guard" \in flags /\ "Fast" \in flags
           [] hop = 1 -> IF "Middle" \in flags
                         THEN "Fast" \in flags
                         ELSE /\ "Fast" \in flags
                              /\ "Stable" \in flags
                              /\ "Guard" \notin flags
                              /\ "Exit" \notin flags
           [] hop = 2 -> "Exit" \in flags /\ "Fast" \in flags
           [] OTHER   -> "Fast" \in flags

\* The filter of the fallback list in select_relay.
fallback_filter(flags) ==
    "Running" \in flags /\ "BadExit" \notin flags

\* Positions of the relays of c, in iteration order.
relay_values(c) == [i \in 1..Len(c) |-> i]

\* The list suitable of select_relay.
suitable_relays(c, hop) ==
    SelectSeq(relay_values(c), LAMBDA i : is_relay_suitable(c[i].flags, hop))

\* The list fallback of select_relay.
fallback_relays(c) ==
    SelectSeq(relay_values(c), LAMBDA i : fallback_filter(c[i].flags))

RECURSIVE total_bandwidth(_, _, _)
total_bandwidth(c, relays, k) ==
    IF k > Len(relays) THEN 0
    ELSE c[relays[k]].bandwidth + total_bandwidth(c, relays, k + 1)

\* The values rng.gen_range can return in select_weighted.
weighted_draws(c, relays) ==
    IF total_bandwidth(c, relays, 1) = 0
    THEN 0..(Len(relays) - 1)
    ELSE 0..(total_bandwidth(c, relays, 1) - 1)

\* The walk with the test sel <= bandwidth.
RECURSIVE weighted_walk_inclusive(_, _, _, _)
weighted_walk_inclusive(c, relays, k, sel) ==
    IF k > Len(relays) THEN relays[1]
    ELSE IF sel <= c[relays[k]].bandwidth THEN relays[k]
    ELSE weighted_walk_inclusive(c, relays, k + 1, sel - c[relays[k]].bandwidth)

\* The loop of select_weighted from the k-th candidate on, sel being what is
\* left of the draw; relays[0] when the loop ends without a return.
RECURSIVE weighted_walk(_, _, _, _)
weighted_walk(c, relays, k, sel) ==
    IF k > Len(relays) THEN relays[1]
    ELSE IF sel < c[relays[k]].bandwidth THEN relays[k]
    ELSE weighted_walk(c, relays, k + 1, sel - c[relays[k]].bandwidth)

NoSuitableRelays == [ok |-> FALSE, relay |-> 0, err |-> "NoSuitableRelays"]

SelectedRelay(i) == [ok |-> TRUE, relay |-> i, err |-> "None"]

select_weighted(c, relays, draw) ==
    IF Len(relays) = 0 THEN NoSuitableRelays
    ELSE IF total_bandwidth(c, relays, 1) = 0 THEN SelectedRelay(relays[draw + 1])
    ELSE SelectedRelay(weighted_walk(c, relays, 1, draw))

\* select_candidates with the suitable list skipped: every call falls back.
select_candidates_fallback_only(c, hop) ==
    fallback_relays(c)

\* The list select_relay hands to select_weighted (empty: it fails itself).
select_candidates(c, hop) ==
    IF Len(suitable_relays(c, hop)) = 0
    THEN fallback_relays(c)
    ELSE suitable_relays(c, hop)

\* select_relay on the snapshot c returned by fetch_consensus.
select_relay(c, hop, draw) ==
    IF Len(select_candidates(c, hop)) = 0 THEN NoSuitableRelays
    ELSE select_weighted(c, select_candidates(c, hop), draw)

\* Every result select_relay(hop) can return on the snapshot c.
select_relay_results(c, hop) ==
    IF Len(select_candidates(c, hop)) = 0 THEN {NoSuitableRelays}
    ELSE { select_relay(c, hop, d) : d \in weighted_draws(c, select_candidates(c, hop)) }

\* ------------------------------------------------------------- wire format

CELL_COMMAND_CREATE2 == 10

CELL_COMMAND_CREATED2 == 11

CELL_COMMAND_RELAY == 3

\* Bytes of a cell on the wire.
CellLen == 514

\* Bytes before the payload: 4 of circuit id, 1 of command.
CellHeaderLen == 5

\* HLEN of a CREATED2 payload: 32 bytes of server key, 32 of auth.
Created2Hlen == 64

\* What the first relay puts on the connection after the CREATE2 cell and
\* what one read() of it returns: io "none" (nothing yet), "reset" (the read
\* fails) or "data" with n bytes received. A field that lies beyond the n
\* bytes is absent (0 / FALSE): circ_id needs 4 bytes, command 5, hlen 7,
\* the auth tag 5 + 2 + 64.
Response(io, n, circ_id, command, hlen, auth_ok) ==
    [io |-> io, n |-> n, circ_id |-> circ_id, command |-> command,
     hlen |-> hlen, auth_ok |-> auth_ok]

NoResponse == Response("none", 0, 0, 0, 0, FALSE)

ResetResponse == Response("reset", 0, 0, 0, 0, FALSE)

\* Lengths one read() is taken to return: connection closed, a header cut
\* before the command byte, a bare header, a CREATED2 payload one byte
\* short, a whole cell.
ResponseLens == {0, CellHeaderLen - 1, CellHeaderLen,
                 CellHeaderLen + 2 + Created2Hlen - 1, CellLen}

\* n bytes of the cell (circ_id, command, hlen, auth tag).
Received(n, circ_id, command, hlen, auth_ok) ==
    Response("data", n,
             IF n >= 4 THEN circ_id ELSE 0,
             IF n >= CellHeaderLen THEN command ELSE 0,
             IF n >= CellHeaderLen + 2 THEN hlen ELSE 0,
             IF n >= CellHeaderLen + 2 + Created2Hlen THEN auth_ok ELSE FALSE)

\* The responses a relay is taken to give to the CREATE2 cell of circuit id:
\* the CREATED2 cell of an honest relay, that cell with one field wrong
\* (another circuit's id, another command, another length, another auth
\* tag), that cell cut short, and a reset.
RelayResponses(id) ==
    {ResetResponse}
    \cup { Received(n, id, CELL_COMMAND_CREATED2, Created2Hlen, TRUE) : n \in ResponseLens }
    \cup { Received(CellLen, 0, CELL_COMMAND_CREATED2, Created2Hlen, TRUE),
           Received(CellLen, id, CELL_COMMAND_RELAY, Created2Hlen, TRUE),
           Received(CellLen, id, CELL_COMMAND_CREATED2, 32, TRUE),
           Received(CellLen, id, CELL_COMMAND_CREATED2, Created2Hlen, FALSE) }

\* Created2Cell::from_bytes on a payload of len bytes whose first two bytes,
\* when present, hold hlen: "ok" or the error string.
Created2Cell_from_bytes(len, hlen) ==
    IF len < 2 THEN "Payload too short for CREATED2 cell"
    ELSE IF hlen # Created2Hlen THEN "Invalid HLEN for CREATED2 cell"
    ELSE IF len < 2 + Created2Hlen THEN "Payload too short for CREATED2 cell"
    ELSE "ok"

\* --------------------------------------------------------- circuit manager

\* Result<CircuitId, CircuitError> of create_circuit; err is the variant of
\* CircuitError, reason its string.
NoResult == [ok |-> FALSE, err |-> "None", reason |-> ""]

OkResult == [ok |-> TRUE, err |-> "None", reason |-> ""]

ErrResult(err, reason) == [ok |-> FALSE, err |-> err, reason |-> reason]

\* A RelayHop: the selected relay and whether crypto_state holds the keys of
\* an ntor handshake (from_ntor_keys) or the random keys of OnionCrypto::new.
RelayHop(relay) == [relay |-> relay, keyed |-> FALSE]

\* The consensus the tasks of Spec select from: one relay per role and one
\* relay fit for the fallback only, flagged as in the mock consensus
\* (bandwidth in units of 1,000,000).
SpecConsensus ==
    << [flags |-> {"Guard", "Fast", "Running", "Valid"}, bandwidth |-> 1],
       [flags |-> {"Fast", "Stable", "Running", "Valid"}, bandwidth |-> 2],
       [flags |-> {"Exit", "Fast", "Running", "Valid"}, bandwidth |-> 3],
       [flags |-> {"Fast", "Running", "Valid"}, bandwidth |-> 1] >>

\* num_hops passed by handle_client.
SocksNumHops == 3

VARIABLES
    next_circuit_id,   \* CircuitManager.next_circuit_id
    circuits,          \* CircuitManager.circuits: id -> [hops, state]
    circuits_lock,     \* holder of the write lock of circuits, or "free"
    assigned,          \* ids in the order create_circuit took them
    pc,                \* where each task stands
    kind,              \* "api": direct caller, "socks": session handler
    num_hops,          \* argument of the task's create_circuit call
    circuit_id,        \* local circuit_id of the call
    hops,              \* local vector hops of the call
    result,            \* what the call returned
    wire,              \* the relay's response, not yet read
    socks_reply,       \* reply codes written to the client, in order
    direct_target,     \* a TCP connection from the process to host:port is open
    bytes_direct,      \* client bytes written to that connection
    c2t_done,          \* the client -> target copy task has ended
    t2c_done,          \* the target -> client copy task has ended
    consensus,         \* snapshot returned by fetch_consensus
    sel_hop,           \* DirSpec: hop of the last select_relay call, -1: none
    sel_result         \* DirSpec: what that call returned

manager_vars == <<next_circuit_id, circuits, circuits_lock, assigned>>

call_vars == <<num_hops, circuit_id, hops, result, wire>>

socks_vars == <<socks_reply, direct_target, bytes_direct, c2t_done, t2c_done>>

\* The directory client's cache and the fetch_consensus calls in progress.
VARIABLES
    use_real_consensus, \* DirectoryClient.use_real_consensus
    cached_consensus,   \* DirectoryClient.consensus: Option<NetworkConsensus>
    last_update,        \* DirectoryClient.last_update, seconds since the epoch
    now,                \* SystemTime::now(), seconds since the epoch
    fc_pc,              \* where each fetch_consensus call stands
    hour_offset,        \* hour_offset of the call's fetch_latest_consensus
    fetched,            \* what the call's last fetch or parse returned
    fetch_now,          \* now of the call's fetch_latest_consensus (Utc::now())
    tried,              \* the hours whose object it has requested, in order
    consensus_from,     \* the call that wrote consensus last, "new": the constructor
    last_update_from,   \* the call that wrote last_update last
    fc_result           \* what fetch_consensus returned

cache_vars == <<use_real_consensus, cached_consensus, last_update, now,
                fc_pc, hour_offset, fetched, fetch_now, tried, consensus_from,
                last_update_from, fc_result>>

dir_vars == <<consensus, sel_hop, sel_result, cache_vars>>

\* One OnionCrypto instance and what was done with it.
VARIABLES
    forward_nonce,      \* OnionCrypto.forward_nonce
    seal_nonces,        \* nonces the forward key has sealed with, in order
    crypto_result       \* the last call on the instance and what it returned

crypto_vars == <<forward_nonce, seal_nonces, crypto_result>>

\* One SOCKS5 session followed byte by byte: handle_client up to its call of
\* create_circuit.
VARIABLES
    client,             \* what the client sends on the connection
    stream_pos,         \* bytes of it the session has read
    client_reply,       \* bytes the session has written to the client
    session_pc,         \* "handshake", "request", "dispatch" or "closed"
    session_err,        \* the ProxyError handle_client returned, or "None"
    request             \* the Socks5Request parse_request returned

session_vars == <<client, stream_pos, client_reply, session_pc, session_err,
                  request>>

\* The relay phase of one session: the two copy tasks handle_client spawns
\* and joins.
VARIABLES
    relay_pc,           \* "idle", "relay" (tasks spawned) or "returned"
    c2t_task,           \* client -> target: "running", "eof" or "failed"
    t2c_task,           \* target -> client: "running", "eof" or "failed"
    client_in,          \* what the client's side holds for the next read
    target_in,          \* what the target's side holds for the next read
    to_target,          \* client bytes written to the target
    to_client           \* target bytes written to the client

relay_vars == <<relay_pc, c2t_task, t2c_task, client_in, target_in, to_target,
                to_client>>

\* The cells of one handshake with the first relay, byte by byte.
VARIABLES
    client_public_key,  \* the 32 bytes of the client's ephemeral public key
    cell_circ_id,       \* circuit.id
    cell_written,       \* the bytes written to the relay, none before the write
    response_payload,   \* the payload of the relay's response cell
    created2            \* what Created2Cell::from_bytes returned for it

cell_vars == <<client_public_key, cell_circ_id, cell_written, response_payload,
               created2>>

\* select_weighted called on a list of its own.
VARIABLES
    sel_draw            \* what rng.gen_range returned in the call, -1: no call

weight_vars == <<sel_draw>>

\* is_relay_suitable called on a relay of its own.
VARIABLES
    suitable            \* what is_relay_suitable returned, FALSE before the call

\* parse_consensus on a document of its own, line by line.
VARIABLES
    lines,              \* lines: the lines of the document
    line_i,             \* i: the index of the outer loop (from 0)
    parse_pc,           \* "idle", "loop", "skip" (after the match) or "done"
    relay_map,          \* relays: the map from id to descriptor
    handed,             \* the indices parse_relay was called at, in order
    parse_result        \* what parse_consensus returned

parser_vars == <<lines, line_i, parse_pc, relay_map, handed, parse_result>>

\* The two copy loops of the relay phase, byte by byte.
VARIABLES
    bridge              \* per direction: source, buffer, destination, task

fn_vars == <<suitable, parser_vars, bridge>>

\* The state of the parts followed on their own.
unit_vars == <<session_vars, relay_vars, cell_vars, weight_vars, fn_vars>>

vars == <<manager_vars, pc, kind, call_vars, socks_vars, dir_vars, crypto_vars, unit_vars>>

\* CircuitManager::get_circuit_state: "None" or the state of the circuit.
get_circuit_state(id) ==
    IF id \in DOMAIN circuits THEN circuits[id].state ELSE "None"

TasksIdle ==
    /\ pc = [t \in Tasks |-> "idle"]
    /\ kind = [t \in Tasks |-> "api"]
    /\ num_hops = [t \in Tasks |-> 0]
    /\ circuit_id = [t \in Tasks |-> 0]
    /\ hops = [t \in Tasks |-> <<>>]
    /\ result = [t \in Tasks |-> NoResult]
    /\ wire = [t \in Tasks |-> NoResponse]
    /\ socks_reply = [t \in Tasks |-> <<>>]
    /\ direct_target = [t \in Tasks |-> FALSE]
    /\ bytes_direct = [t \in Tasks |-> 0]
    /\ c2t_done = [t \in Tasks |-> FALSE]
    /\ t2c_done = [t \in Tasks |-> FALSE]

\* The first id, with the counter started at 0.
first_circuit_id_zero == 1 - 1

\* next_circuit_id: RwLock::new(1)
first_circuit_id == 1

\* CircuitManager::new
ManagerNew ==
    /\ next_circuit_id = first_circuit_id
    /\ circuits = << >>
    /\ circuits_lock = "free"
    /\ assigned = << >>

\* Option<NetworkConsensus>, a consensus being its relay map (the set of
\* relay ids).
NoConsensus == [some |-> FALSE, relays |-> {}]

SomeConsensus(relays) == [some |-> TRUE, relays |-> relays]

\* Result<NetworkConsensus, DirectoryError>, and the value before any result.
NoFetch == [ok |-> FALSE, err |-> "None", relays |-> {}]

FetchOk(relays) == [ok |-> TRUE, err |-> "None", relays |-> relays]

FetchErr(err) == [ok |-> FALSE, err |-> err, relays |-> {}]

\* No fetch_consensus call is in progress.
FetchIdle ==
    /\ fc_pc = [t \in Tasks |-> "idle"]
    /\ hour_offset = [t \in Tasks |-> 0]
    /\ fetched = [t \in Tasks |-> NoFetch]
    /\ fetch_now = [t \in Tasks |-> 0]
    /\ tried = [t \in Tasks |-> << >>]
    /\ fc_result = [t \in Tasks |-> NoFetch]

\* DirectoryClient::new (real) and DirectoryClient::new_mock, at time 0 of a
\* clock that stands still.
DirectoryNew(real) ==
    /\ use_real_consensus = real
    /\ cached_consensus = NoConsensus
    /\ last_update = 0
    /\ now = 0
    /\ consensus_from = "new"
    /\ last_update_from = "new"
    /\ FetchIdle

\* A sealed message: the plaintext, the key and the nonce it was sealed
\* with (the tag binds the three).
Sealed(plain, key, nonce) == [plain |-> plain, key |-> key, nonce |-> nonce]

NoCiphertext == Sealed(0, "none", 0)

\* The last call on the instance: op, Ok or Err, the plaintext and the
\* ciphertext passed or returned.
CryptoCall(op, ok, err, plain, ct) ==
    [op |-> op, ok |-> ok, err |-> err, plain |-> plain, ct |-> ct]

NoCall == CryptoCall("none", FALSE, "None", 0, NoCiphertext)

\* OnionCrypto::new and OnionCrypto::from_ntor_keys
OnionCryptoNew ==
    /\ forward_nonce = 0
    /\ seal_nonces = << >>
    /\ crypto_result = NoCall

\* No Socks5Request yet. A host String is the sequence of the code points of
\* its chars.
NoRequest == [host |-> << >>, port |-> 0]

\* The greeting and the request of a client: the version byte and the method
\* list, then the version byte, the command, the address type, the address
\* bytes (after the length byte, for a domain), the port and the bytes that
\* follow the request; the client closes cut bytes before the end.
ClientSends(version, methods, req_version, cmd, atyp, addr, port, extra, cut) ==
    [version |-> version, methods |-> methods, req_version |-> req_version,
     cmd |-> cmd, atyp |-> atyp, addr |-> addr, port |-> port,
     extra |-> extra, cut |-> cut]

NoClient == ClientSends(0, << >>, 0, 0, 0, << >>, 0, << >>, 0)

\* No session is followed by bytes.
SessionIdle ==
    /\ client = NoClient
    /\ stream_pos = 0
    /\ client_reply = << >>
    /\ session_pc = "closed"
    /\ session_err = "None"
    /\ request = NoRequest

\* No session is in its relay phase.
RelayIdle ==
    /\ relay_pc = "idle"
    /\ c2t_task = "running"
    /\ t2c_task = "running"
    /\ client_in = "none"
    /\ target_in = "none"
    /\ to_target = 0
    /\ to_client = 0

\* Result<Created2Cell, &'static str>, and the value before any call.
NoCreated2 == [ok |-> FALSE, err |-> "None", server_public_key |-> << >>, auth |-> << >>]

Created2Ok(key, auth) ==
    [ok |-> TRUE, err |-> "None", server_public_key |-> key, auth |-> auth]

Created2Err(err) ==
    [ok |-> FALSE, err |-> err, server_public_key |-> << >>, auth |-> << >>]

\* No handshake is followed by bytes.
CellsIdle ==
    /\ client_public_key = << >>
    /\ cell_circ_id = 0
    /\ cell_written = << >>
    /\ response_payload = << >>
    /\ created2 = NoCreated2

\* The two spawned copy tasks.
Directions == {"client_to_target", "target_to_client"}

\* A copy task: src, what its source sends in all; rd, how many bytes of it
\* the task has read; buf, its buffer; n, the bytes of the last read still to
\* be written (0: the task is at its read); wr, how many of them write_all
\* has written; dst, what its destination has received; task, "idle",
\* "running", "eof" or "failed".
CopyTask(src, task) ==
    [src |-> src, rd |-> 0, buf |-> [i \in 1..BufLen |-> 0], n |-> 0, wr |-> 0,
     dst |-> << >>, task |-> task]

\* No function is followed on its own.
FunctionsIdle ==
    /\ suitable = FALSE
    /\ lines = << >>
    /\ line_i = 0
    /\ parse_pc = "idle"
    /\ relay_map = << >>
    /\ handed = << >>
    /\ parse_result = NoFetch
    /\ bridge = [d \in Directions |-> CopyTask(<< >>, "idle")]

Init ==
    /\ FunctionsIdle
    /\ ManagerNew
    /\ TasksIdle
    /\ DirectoryNew(FALSE)
    /\ OnionCryptoNew
    /\ SessionIdle
    /\ RelayIdle
    /\ CellsIdle
    /\ sel_draw = -1
    /\ consensus = SpecConsensus
    /\ sel_hop = -1
    /\ sel_result = NoSuitableRelays

\* ------------------------------------------------------------ task helpers

\* The task is gone (returned to its caller, aborted or session closed): its
\* slot is free for the next call.
ResetTask(t) ==
    /\ pc' = [pc EXCEPT ![t] = "idle"]
    /\ kind' = [kind EXCEPT ![t] = "api"]
    /\ num_hops' = [num_hops EXCEPT ![t] = 0]
    /\ circuit_id' = [circuit_id EXCEPT ![t] = 0]
    /\ hops' = [hops EXCEPT ![t] = <<>>]
    /\ result' = [result EXCEPT ![t] = NoResult]
    /\ wire' = [wire EXCEPT ![t] = NoResponse]
    /\ socks_reply' = [socks_reply EXCEPT ![t] = <<>>]
    /\ direct_target' = [direct_target EXCEPT ![t] = FALSE]
    /\ bytes_direct' = [bytes_direct EXCEPT ![t] = 0]
    /\ c2t_done' = [c2t_done EXCEPT ![t] = FALSE]
    /\ t2c_done' = [t2c_done EXCEPT ![t] = FALSE]

\* create_circuit returns res: a direct caller holds it, handle_client goes
\* on to its match on the result. The argument and the locals of the call are
\* gone.
Return(t, res) ==
    /\ result' = [result EXCEPT ![t] = res]
    /\ num_hops' = [num_hops EXCEPT ![t] = 0]
    /\ hops' = [hops EXCEPT ![t] = <<>>]
    /\ pc' = [pc EXCEPT ![t] = IF kind[t] = "api" THEN "returned" ELSE "socks_reply"]

\* Calls that have not taken their id yet.
PendingCalls ==
    { t \in Tasks : pc[t] \in {"socks_handshake", "socks_request", "alloc"} }

\* The cap on the id counter: a new call starts only while an id is left.
IdLeft == next_circuit_id + Cardinality(PendingCalls) <= MaxCircuitId

\* ----------------------------------------------------------- create_circuit

\* TorClient::create_circuit: a direct call with num_hops = n.
api_call(t, n) ==
    /\ pc[t] = "idle"
    /\ IdLeft
    /\ kind' = [kind EXCEPT ![t] = "api"]
    /\ num_hops' = [num_hops EXCEPT ![t] = n]
    /\ pc' = [pc EXCEPT ![t] = "alloc"]
    /\ UNCHANGED <<manager_vars, circuit_id, hops, result, wire,
                   socks_vars, dir_vars, crypto_vars, unit_vars>>

\* The counter after the id is taken, with the increment forgotten.
next_id_after_same(n) == n

\* *next_id += 1
next_id_after(n) == n + 1

\* The block under the write lock of next_circuit_id.
create_circuit_alloc(t) ==
    /\ pc[t] = "alloc"
    /\ circuit_id' = [circuit_id EXCEPT ![t] = next_circuit_id]
    /\ next_circuit_id' = next_id_after(next_circuit_id)
    /\ assigned' = Append(assigned, next_circuit_id)
    /\ hops' = [hops EXCEPT ![t] = <<>>]
    /\ pc' = [pc EXCEPT ![t] = "select"]
    /\ UNCHANGED <<circuits, circuits_lock, kind, num_hops, result, wire, socks_vars, dir_vars, crypto_vars, unit_vars>>

\* One iteration of the loop over hop_num: select_relay(hop_num), whose
\* fetch_consensus can fail, then OnionCrypto::new, whose rng can fail.
create_circuit_select(t) ==
    /\ pc[t] = "select"
    /\ Len(hops[t]) < num_hops[t]
    /\ \E outcome \in {"ok", "fetch_failed", "rng_failed"} :
         \E r \in select_relay_results(consensus, Len(hops[t])) :
           IF outcome = "fetch_failed"
           THEN Return(t, ErrResult("Directory", "RequestFailed"))
           ELSE IF ~r.ok
           THEN Return(t, ErrResult("Directory", r.err))
           ELSE IF outcome = "rng_failed"
           THEN Return(t, ErrResult("Crypto", "RingError"))
           ELSE /\ hops' = [hops EXCEPT ![t] = Append(@, RelayHop(r.relay))]
                /\ UNCHANGED <<pc, result, num_hops>>
    /\ UNCHANGED <<manager_vars, kind, circuit_id, wire, socks_vars, dir_vars, crypto_vars, unit_vars>>

\* The circuit is built from the local hops (moved into it) and inserted:
\* self.circuits.write().await.insert(circuit_id, circuit)
create_circuit_store(t) ==
    /\ pc[t] = "select"
    /\ Len(hops[t]) = num_hops[t]
    /\ circuits_lock = "free"
    /\ circuits' = [id \in DOMAIN circuits \cup {circuit_id[t]} |->
                      IF id = circuit_id[t]
                      THEN [hops |-> hops[t], state |-> "Building"]
                      ELSE circuits[id]]
    /\ hops' = [hops EXCEPT ![t] = <<>>]
    /\ pc' = [pc EXCEPT ![t] = "handshake"]
    /\ UNCHANGED <<next_circuit_id, circuits_lock, assigned, kind, num_hops,
                   circuit_id, result, wire, socks_vars, dir_vars, crypto_vars, unit_vars>>

\* perform_handshakes up to the connect: the write lock of circuits is taken
\* and kept; circuit.hops[0] aborts the task when the circuit has no hop.
perform_handshakes_begin(t) ==
    /\ pc[t] = "handshake"
    /\ circuits_lock = "free"
    /\ IF Len(circuits[circuit_id[t]].hops) = 0
       THEN /\ pc' = [pc EXCEPT ![t] = "panicked"]
            /\ UNCHANGED circuits_lock
       ELSE /\ pc' = [pc EXCEPT ![t] = "hs_connect"]
            /\ circuits_lock' = t
    /\ UNCHANGED <<next_circuit_id, circuits, assigned, kind, call_vars,
                   socks_vars, dir_vars, crypto_vars, unit_vars>>

\* TcpStream::connect(hop.ip)
perform_handshakes_connect(t) ==
    /\ pc[t] = "hs_connect"
    /\ \E connected \in BOOLEAN :
         IF connected
         THEN /\ pc' = [pc EXCEPT ![t] = "hs_write"]
              /\ UNCHANGED <<result, num_hops, hops, circuits_lock>>
         ELSE /\ Return(t, ErrResult("Io", "connect"))
              /\ circuits_lock' = "free"
    /\ UNCHANGED <<next_circuit_id, circuits, assigned, kind, circuit_id, wire,
                   socks_vars, dir_vars, crypto_vars, unit_vars>>

\* stream.write_all(&cell_bytes) of the CREATE2 cell
perform_handshakes_write(t) ==
    /\ pc[t] = "hs_write"
    /\ \E written \in BOOLEAN :
         IF written
         THEN /\ pc' = [pc EXCEPT ![t] = "hs_read"]
              /\ UNCHANGED <<result, num_hops, hops, circuits_lock>>
         ELSE /\ Return(t, ErrResult("Io", "write"))
              /\ circuits_lock' = "free"
    /\ UNCHANGED <<next_circuit_id, circuits, assigned, kind, circuit_id, wire,
                   socks_vars, dir_vars, crypto_vars, unit_vars>>

\* The first relay answers, closes or resets the connection.
relay_respond(t, r) ==
    /\ pc[t] = "hs_read"
    /\ wire[t] = NoResponse
    /\ wire' = [wire EXCEPT ![t] = r]
    /\ UNCHANGED <<manager_vars, pc, kind, num_hops, circuit_id, hops, result,
                   socks_vars, dir_vars, crypto_vars, unit_vars>>

PanicResult == ErrResult("Panic", "index out of range")

\* Steps 6 to 9 without the comparison of the auth value (step 8).
handshake_outcome_unverified(r, id) ==
    IF r.io = "reset" THEN ErrResult("Io", "read")
    ELSE IF r.n < CellHeaderLen THEN PanicResult
    ELSE IF r.circ_id # id \/ r.command # CELL_COMMAND_CREATED2
    THEN ErrResult("HandshakeFailed", "Invalid response from relay")
    ELSE IF Created2Cell_from_bytes(r.n - CellHeaderLen, r.hlen) # "ok"
    THEN ErrResult("HandshakeFailed", Created2Cell_from_bytes(r.n - CellHeaderLen, r.hlen))
    ELSE OkResult

\* Steps 6 to 9 of perform_handshakes on the response r read for circuit id.
handshake_outcome(r, id) ==
    IF r.io = "reset" THEN ErrResult("Io", "read")
    ELSE IF r.n < CellHeaderLen THEN PanicResult
    ELSE IF r.circ_id # id \/ r.command # CELL_COMMAND_CREATED2
    THEN ErrResult("HandshakeFailed", "Invalid response from relay")
    ELSE IF Created2Cell_from_bytes(r.n - CellHeaderLen, r.hlen) # "ok"
    THEN ErrResult("HandshakeFailed", Created2Cell_from_bytes(r.n - CellHeaderLen, r.hlen))
    ELSE IF ~r.auth_ok
    THEN ErrResult("HandshakeFailed", "Invalid auth value from relay")
    ELSE OkResult

\* stream.read(&mut response) and the rest of perform_handshakes; the write
\* lock is released when the function returns or unwinds.
perform_handshakes_read(t) ==
    /\ pc[t] = "hs_read"
    /\ wire[t] # NoResponse
    /\ wire' = [wire EXCEPT ![t] = NoResponse]
    /\ circuits_lock' = "free"
    /\ LET out == handshake_outcome(wire[t], circuit_id[t]) IN
         IF out = PanicResult
         THEN /\ pc' = [pc EXCEPT ![t] = "panicked"]
              /\ UNCHANGED <<result, num_hops, hops, circuits>>
         ELSE IF out.ok
         THEN /\ circuits' = [circuits EXCEPT ![circuit_id[t]].hops[1].keyed = TRUE]
              /\ pc' = [pc EXCEPT ![t] = "mark_ready"]
              /\ UNCHANGED <<result, num_hops, hops>>
         ELSE /\ Return(t, out)
              /\ UNCHANGED circuits
    /\ UNCHANGED <<next_circuit_id, assigned, kind, circuit_id, socks_vars, dir_vars, crypto_vars, unit_vars>>

\* The state create_circuit writes after perform_handshakes, left unwritten.
ready_state_unwritten(state) == state

\* circuit.state = CircuitState::Ready
ready_state(state) == "Ready"

\* "Mark circuit as ready" and Ok(circuit_id)
create_circuit_ready(t) ==
    /\ pc[t] = "mark_ready"
    /\ circuits_lock = "free"
    /\ circuits' = IF circuit_id[t] \in DOMAIN circuits
                   THEN [circuits EXCEPT ![circuit_id[t]].state = ready_state(@)]
                   ELSE circuits
    /\ Return(t, OkResult)
    /\ UNCHANGED <<next_circuit_id, circuits_lock, assigned, kind, circuit_id,
                   wire, socks_vars, dir_vars, crypto_vars, unit_vars>>

\* The direct caller has its result; the task ends.
api_return(t) ==
    /\ pc[t] = "returned"
    /\ ResetTask(t)
    /\ UNCHANGED <<manager_vars, dir_vars, crypto_vars, unit_vars>>

\* A task that panicked is dropped by the runtime.
task_aborted(t) ==
    /\ pc[t] = "panicked"
    /\ ResetTask(t)
    /\ UNCHANGED <<manager_vars, dir_vars, crypto_vars, unit_vars>>

\* ------------------------------------------------------------ SOCKS5 proxy

SocksVersion == 5

SocksCmdConnect == 1

\* Version bytes, commands and address types a client is taken to send.
ClientVersions == {4, SocksVersion}

ClientCommands == {SocksCmdConnect, 2}

ClientAddressTypes == {1, 3, 4, 5}

\* Socks5Proxy::run: a connection is accepted and handle_client spawned.
socks_accept(t) ==
    /\ pc[t] = "idle"
    /\ IdLeft
    /\ kind' = [kind EXCEPT ![t] = "socks"]
    /\ pc' = [pc EXCEPT ![t] = "socks_handshake"]
    /\ UNCHANGED <<manager_vars, call_vars, socks_vars, dir_vars, crypto_vars, unit_vars>>

\* Socks5Proxy::perform_handshake: Err on a read or write failure and on a
\* version other than 5, else the reply 05 00 is written. On Err handle_client
\* returns and the session is over.
perform_handshake(t) ==
    /\ pc[t] = "socks_handshake"
    /\ \E version \in ClientVersions, io_ok \in BOOLEAN :
         IF io_ok /\ version = SocksVersion
         THEN /\ pc' = [pc EXCEPT ![t] = "socks_request"]
              /\ UNCHANGED <<kind, call_vars, socks_vars>>
         ELSE ResetTask(t)
    /\ UNCHANGED <<manager_vars, dir_vars, crypto_vars, unit_vars>>

\* Socks5Proxy::parse_request, and on Ok the call create_circuit(3, ..).
parse_request(t) ==
    /\ pc[t] = "socks_request"
    /\ \E version \in ClientVersions, cmd \in ClientCommands,
          atyp \in ClientAddressTypes, io_ok \in BOOLEAN :
         IF io_ok /\ version = SocksVersion /\ cmd = SocksCmdConnect /\ atyp \in {1, 3, 4}
         THEN /\ pc' = [pc EXCEPT ![t] = "alloc"]
              /\ num_hops' = [num_hops EXCEPT ![t] = SocksNumHops]
              /\ UNCHANGED <<kind, circuit_id, hops, result, wire, socks_vars>>
         ELSE ResetTask(t)
    /\ UNCHANGED <<manager_vars, dir_vars, crypto_vars, unit_vars>>

\* The status with 0x00 sent on a failed circuit too.
reply_status_success(ok) == 0

\* The status handle_client passes to send_response: 0x00 in the arm
\* Ok(circuit_id), 0x01 in the arm Err(e).
reply_status(ok) == IF ok THEN 0 ELSE 1

\* Socks5Proxy::send_response as handle_client calls it: the reply is written
\* or the write fails and handle_client returns the error. After status 0 the
\* session goes on to the target, after status 1 it falls out of the match.
send_response(t) ==
    /\ pc[t] = "socks_reply"
    /\ \E io_ok \in BOOLEAN :
         IF io_ok
         THEN /\ socks_reply' = [socks_reply EXCEPT
                                   ![t] = Append(@, reply_status(result[t].ok))]
              /\ pc' = [pc EXCEPT ![t] = IF result[t].ok THEN "socks_connect"
                                                         ELSE "socks_close"]
              /\ UNCHANGED <<kind, call_vars, direct_target, bytes_direct,
                             c2t_done, t2c_done>>
         ELSE ResetTask(t)
    /\ UNCHANGED <<manager_vars, dir_vars, crypto_vars, unit_vars>>

\* handle_client returns Ok(()) after the failure reply: the client stream is
\* dropped, which closes the connection.
socks_close(t) ==
    /\ pc[t] = "socks_close"
    /\ ResetTask(t)
    /\ UNCHANGED <<manager_vars, dir_vars, crypto_vars, unit_vars>>

\* timeout(10 s, TcpStream::connect("host:port")) in handle_client: whether
\* the process now holds a connection of its own to the target.
connect_target(connected) == connected

\* The match on the timed connect: Ok(Ok(target)) starts the relay, a refused
\* or timed out connect ends the session.
socks_connect_target(t) ==
    /\ pc[t] = "socks_connect"
    /\ \E connected \in BOOLEAN :
         IF connect_target(connected)
         THEN /\ direct_target' = [direct_target EXCEPT ![t] = TRUE]
              /\ pc' = [pc EXCEPT ![t] = "relay"]
              /\ UNCHANGED <<kind, call_vars, socks_reply, bytes_direct,
                             c2t_done, t2c_done>>
         ELSE ResetTask(t)
    /\ UNCHANGED <<manager_vars, dir_vars, crypto_vars, unit_vars>>

\* The spawned task client -> target: a read of n > 0 bytes is written to the
\* target; EOF, a read error or a write error ends the loop.
client_to_target(t) ==
    /\ pc[t] = "relay"
    /\ ~c2t_done[t]
    /\ \E ev \in {"data", "eof", "read_err", "write_err"} :
         IF ev = "data"
         THEN /\ bytes_direct[t] < MaxBytes
              /\ bytes_direct' = [bytes_direct EXCEPT ![t] = @ + 1]
              /\ UNCHANGED c2t_done
         ELSE /\ c2t_done' = [c2t_done EXCEPT ![t] = TRUE]
              /\ UNCHANGED bytes_direct
    /\ UNCHANGED <<manager_vars, pc, kind, call_vars, socks_reply, direct_target,
                   t2c_done, dir_vars, crypto_vars, unit_vars>>

\* The spawned task target -> client.
target_to_client(t) ==
    /\ pc[t] = "relay"
    /\ ~t2c_done[t]
    /\ t2c_done' = [t2c_done EXCEPT ![t] = TRUE]
    /\ UNCHANGED <<manager_vars, pc, kind, call_vars, socks_reply, direct_target,
                   bytes_direct, c2t_done, dir_vars, crypto_vars, unit_vars>>

\* tokio::join! of the two copy tasks, after which handle_client returns.
relay_join(t) ==
    /\ pc[t] = "relay"
    /\ c2t_done[t]
    /\ t2c_done[t]
    /\ ResetTask(t)
    /\ UNCHANGED <<manager_vars, dir_vars, crypto_vars, unit_vars>>

\* ------------------------------------------------ SOCKS5 session, by bytes

\* The bytes of the client's greeting and request, in the order sent.
client_bytes(c) ==
    <<c.version, Len(c.methods)>> \o c.methods
    \o <<c.req_version, c.cmd, 0, c.atyp>>
    \o (IF c.atyp = 3 THEN <<Len(c.addr)>> ELSE << >>) \o c.addr
    \o <<c.port \div 256, c.port % 256>>
    \o c.extra

\* What reaches the session before the client closes.
client_stream(c) ==
    SubSeq(client_bytes(c), 1, Len(client_bytes(c)) - c.cut)

\* stream.read_exact(buf), buf of n bytes, with pos bytes read before: the
\* next n bytes, or Err (UnexpectedEof) when the client closed before them.
read_exact(stream, pos, n) ==
    IF pos + n <= Len(stream)
    THEN [ok |-> TRUE, bytes |-> SubSeq(stream, pos + 1, pos + n), pos |-> pos + n]
    ELSE [ok |-> FALSE, bytes |-> << >>, pos |-> Len(stream)]

\* Result of perform_handshake and parse_request: Ok or the ProxyError, the
\* bytes read so far, the bytes written to the client, the request.
SessionOk(pos, written, req) ==
    [ok |-> TRUE, err |-> "None", pos |-> pos, written |-> written, request |-> req]

SessionErr(err, pos) ==
    [ok |-> FALSE, err |-> err, pos |-> pos, written |-> << >>, request |-> NoRequest]

\* Socks5Proxy::perform_handshake on the bytes of the stream from pos on:
\* version and nmethods are read, then nmethods bytes, then 05 00 is written.
perform_handshake_bytes(stream, pos, write_ok) ==
    IF ~read_exact(stream, pos, 2).ok THEN SessionErr("Io", Len(stream))
    ELSE IF read_exact(stream, pos, 2).bytes[1] # SocksVersion
    THEN SessionErr("InvalidVersion", pos + 2)
    ELSE IF ~read_exact(stream, pos + 2, read_exact(stream, pos, 2).bytes[2]).ok
    THEN SessionErr("Io", Len(stream))
    ELSE IF ~write_ok
    THEN SessionErr("Io", pos + 2 + read_exact(stream, pos, 2).bytes[2])
    ELSE SessionOk(pos + 2 + read_exact(stream, pos, 2).bytes[2],
                   <<SocksVersion, 0>>, NoRequest)

\* The decimal digits of n, as format!("{}") writes a u8.
RECURSIVE decimal(_)
decimal(n) ==
    IF n < 10 THEN <<48 + n>> ELSE decimal(n \div 10) \o <<48 + (n % 10)>>

\* format!("{}.{}.{}.{}", addr[0], addr[1], addr[2], addr[3])
format_ipv4(addr) ==
    decimal(addr[1]) \o <<46>> \o decimal(addr[2]) \o <<46>>
    \o decimal(addr[3]) \o <<46>> \o decimal(addr[4])

\* One digit of {:02x}.
hex_digit(d) == IF d < 10 THEN 48 + d ELSE 87 + d

\* format!("{:02x}") of a u8.
hex_byte(b) == <<hex_digit(b \div 16), hex_digit(b % 16)>>

\* The groups from the k-th on of the IPv6 format string: two bytes a group,
\* ":" between groups.
RECURSIVE format_ipv6_from(_, _)
format_ipv6_from(addr, k) ==
    hex_byte(addr[2 * k - 1]) \o hex_byte(addr[2 * k])
    \o (IF k = 8 THEN << >> ELSE <<58>> \o format_ipv6_from(addr, k + 1))

format_ipv6(addr) == format_ipv6_from(addr, 1)

\* U+FFFD REPLACEMENT CHARACTER
ReplacementChar == 65533

\* String::from_utf8_lossy on bytes that are ASCII or a byte no UTF-8
\* sequence holds (0xF8..0xFF): an ASCII byte is its char, each of the others
\* becomes U+FFFD.
from_utf8_lossy(bytes) ==
    [i \in 1..Len(bytes) |-> IF bytes[i] < 128 THEN bytes[i] ELSE ReplacementChar]

\* The port read with the low byte first.
u16_from_le_bytes(bytes) == bytes[2] * 256 + bytes[1]

\* u16::from_be_bytes(port_buf)
u16_from_be_bytes(bytes) == bytes[1] * 256 + bytes[2]

\* The match on atyp in parse_request: the host and the bytes read, or the
\* error.
read_address(stream, pos, atyp) ==
    CASE atyp = 1 ->
           IF read_exact(stream, pos, 4).ok
           THEN [ok |-> TRUE, err |-> "None", pos |-> pos + 4,
                 host |-> format_ipv4(read_exact(stream, pos, 4).bytes)]
           ELSE [ok |-> FALSE, err |-> "Io", pos |-> Len(stream), host |-> << >>]
      [] atyp = 3 ->
           IF read_exact(stream, pos, 1).ok
              /\ read_exact(stream, pos + 1, read_exact(stream, pos, 1).bytes[1]).ok
           THEN [ok |-> TRUE, err |-> "None",
                 pos |-> pos + 1 + read_exact(stream, pos, 1).bytes[1],
                 host |-> from_utf8_lossy(
                     read_exact(stream, pos + 1,
                                read_exact(stream, pos, 1).bytes[1]).bytes)]
           ELSE [ok |-> FALSE, err |-> "Io", pos |-> Len(stream), host |-> << >>]
      [] atyp = 4 ->
           IF read_exact(stream, pos, 16).ok
           THEN [ok |-> TRUE, err |-> "None", pos |-> pos + 16,
                 host |-> format_ipv6(read_exact(stream, pos, 16).bytes)]
           ELSE [ok |-> FALSE, err |-> "Io", pos |-> Len(stream), host |-> << >>]
      [] OTHER -> [ok |-> FALSE, err |-> "Unsupported", pos |-> pos, host |-> << >>]

\* Socks5Proxy::parse_request on the bytes of the stream from pos on.
parse_request_bytes(stream, pos) ==
    IF ~read_exact(stream, pos, 4).ok THEN SessionErr("Io", Len(stream))
    ELSE IF read_exact(stream, pos, 4).bytes[1] # SocksVersion
    THEN SessionErr("InvalidVersion", pos + 4)
    ELSE IF read_exact(stream, pos, 4).bytes[2] # SocksCmdConnect
    THEN SessionErr("Unsupported", pos + 4)
    ELSE IF ~read_address(stream, pos + 4, read_exact(stream, pos, 4).bytes[4]).ok
    THEN SessionErr(read_address(stream, pos + 4, read_exact(stream, pos, 4).bytes[4]).err,
                    read_address(stream, pos + 4, read_exact(stream, pos, 4).bytes[4]).pos)
    ELSE IF ~read_exact(stream,
                        read_address(stream, pos + 4, read_exact(stream, pos, 4).bytes[4]).pos,
                        2).ok
    THEN SessionErr("Io", Len(stream))
    ELSE SessionOk(
           read_address(stream, pos + 4, read_exact(stream, pos, 4).bytes[4]).pos + 2,
           << >>,
           [host |-> read_address(stream, pos + 4, read_exact(stream, pos, 4).bytes[4]).host,
            port |-> u16_from_be_bytes(
                read_exact(stream,
                           read_address(stream, pos + 4,
                                        read_exact(stream, pos, 4).bytes[4]).pos,
                           2).bytes)])

\* Method lists of a greeting: 0x00 (no authentication) and 0x02 (username
\* and password), in any order and number.
ClientMethods == UNION { [1..n -> {0, 2}] : n \in 0..MaxMethods }

\* Bytes of a domain name: "a", "." and 0xFF.
DomainBytes == {97, 46, 255}

\* "example.com"
ExampleDomain == <<101, 120, 97, 109, 112, 108, 101, 46, 99, 111, 109>>

\* The address bytes a client sends with an address type.
ClientAddresses(atyp) ==
    CASE atyp = 1 -> { <<127, 0, 0, 1>>, <<192, 168, 1, 10>> }
      [] atyp = 3 -> UNION { [1..n -> DomainBytes] : n \in 0..MaxDomainLen }
                     \cup {ExampleDomain}
      [] atyp = 4 -> { [i \in 1..16 |-> IF i = 16 THEN 1 ELSE 0],
                       [i \in 1..16 |-> (37 * i) % 256] }
      [] OTHER -> { << >> }

ClientPorts == {80, 443, 65535}

\* What a client is taken to send with an address type: any greeting and any
\* request, with or without a byte after the request, whole or closed one
\* byte early.
Clients(atyp) ==
    { ClientSends(v, m, rv, cmd, atyp, addr, port, extra, cut) :
        v \in ClientVersions, m \in ClientMethods, rv \in ClientVersions,
        cmd \in ClientCommands, addr \in ClientAddresses(atyp),
        port \in ClientPorts, extra \in { << >>, <<9>> }, cut \in {0, 1} }

session_frame == <<manager_vars, pc, kind, call_vars, socks_vars, dir_vars,
                   crypto_vars, relay_vars, cell_vars, weight_vars,
                 fn_vars>>

\* handle_client: Self::perform_handshake(&mut stream).await?
handle_client_handshake ==
    /\ session_pc = "handshake"
    /\ \E write_ok \in BOOLEAN :
         /\ stream_pos' = perform_handshake_bytes(client_stream(client), stream_pos, write_ok).pos
         /\ client_reply' = client_reply
              \o perform_handshake_bytes(client_stream(client), stream_pos, write_ok).written
         /\ session_err' = perform_handshake_bytes(client_stream(client), stream_pos, write_ok).err
         /\ session_pc' =
              IF perform_handshake_bytes(client_stream(client), stream_pos, write_ok).ok
              THEN "request" ELSE "closed"
    /\ UNCHANGED <<client, request, session_frame>>

\* handle_client: let request = Self::parse_request(&mut stream).await?; on
\* Ok the session goes on to create_circuit, on Err nothing more is written
\* and the stream is dropped.
handle_client_request ==
    /\ session_pc = "request"
    /\ stream_pos' = parse_request_bytes(client_stream(client), stream_pos).pos
    /\ session_err' = parse_request_bytes(client_stream(client), stream_pos).err
    /\ request' = parse_request_bytes(client_stream(client), stream_pos).request
    /\ session_pc' = IF parse_request_bytes(client_stream(client), stream_pos).ok
                     THEN "dispatch" ELSE "closed"
    /\ UNCHANGED <<client, client_reply, session_frame>>

\* ------------------------------------------- SOCKS5 session, relay phase

\* What a read of a copy task can find besides nothing yet (the read waits):
\* bytes, the end of the stream, an error of the connection.
ReadEvents == {"data", "eof", "err"}

relay_frame == <<manager_vars, pc, kind, call_vars, socks_vars, dir_vars,
                 crypto_vars, session_vars, cell_vars, weight_vars,
                 fn_vars>>

\* The client writes to its connection, closes it or the connection breaks,
\* while the client -> target task reads from it.
client_writes(ev) ==
    /\ relay_pc = "relay"
    /\ c2t_task = "running"
    /\ client_in = "none"
    /\ ev = "data" => to_target < MaxBytes
    /\ client_in' = ev
    /\ UNCHANGED <<relay_pc, c2t_task, t2c_task, target_in, to_target, to_client,
                   relay_frame>>

\* The same on the side of the target.
target_writes(ev) ==
    /\ relay_pc = "relay"
    /\ t2c_task = "running"
    /\ target_in = "none"
    /\ ev = "data" => to_client < MaxBytes
    /\ target_in' = ev
    /\ UNCHANGED <<relay_pc, c2t_task, t2c_task, client_in, to_target, to_client,
                   relay_frame>>

\* The task spawned for client -> target, one turn of its loop: the read
\* returns what the client's side holds; bytes are written to the target,
\* Ok(0) ends the loop, a read error or a write error ends it with
\* log::error!.
copy_client_to_target ==
    /\ relay_pc = "relay"
    /\ c2t_task = "running"
    /\ client_in # "none"
    /\ \E write_ok \in BOOLEAN :
         IF client_in = "data" /\ write_ok
         THEN /\ to_target' = to_target + 1
              /\ UNCHANGED c2t_task
         ELSE /\ c2t_task' = IF client_in = "eof" THEN "eof" ELSE "failed"
              /\ UNCHANGED to_target
    /\ client_in' = "none"
    /\ UNCHANGED <<relay_pc, t2c_task, target_in, to_client, relay_frame>>

\* The task spawned for target -> client.
copy_target_to_client ==
    /\ relay_pc = "relay"
    /\ t2c_task = "running"
    /\ target_in # "none"
    /\ \E write_ok \in BOOLEAN :
         IF target_in = "data" /\ write_ok
         THEN /\ to_client' = to_client + 1
              /\ UNCHANGED t2c_task
         ELSE /\ t2c_task' = IF target_in = "eof" THEN "eof" ELSE "failed"
              /\ UNCHANGED to_client
    /\ target_in' = "none"
    /\ UNCHANGED <<relay_pc, c2t_task, client_in, to_target, relay_frame>>

\* select! in the place of join!: the first task to end ends the wait.
select_ready(a, b) == a # "running" \/ b # "running"

\* tokio::join!(client_to_target, target_to_client) returns when both tasks
\* have ended.
join_ready(a, b) == a # "running" /\ b # "running"

\* handle_client after the join: "Connection relay finished", Ok(()).
join_copy_tasks ==
    /\ relay_pc = "relay"
    /\ join_ready(c2t_task, t2c_task)
    /\ relay_pc' = "returned"
    /\ UNCHANGED <<c2t_task, t2c_task, client_in, target_in, to_target, to_client,
                   relay_frame>>

\* ----------------------------- SOCKS5 session, relay phase byte by byte

\* The bytes a side sends: those of the client and those of the target are
\* told apart.
SourceBytes(d) == IF d = "client_to_target" THEN {1, 2} ELSE {3, 4}

Sources(d) == UNION { [1..n -> SourceBytes(d)] : n \in 0..MaxStream }

\* The buffer after a read of n bytes from position rd of src.
read_into(buf, src, rd, n) ==
    [i \in 1..BufLen |-> IF i <= n THEN src[rd + i] ELSE buf[i]]

\* The whole buffer in the place of its first n bytes.
buf_whole(buf, n) == buf

\* &buf[..n]
buf_slice(buf, n) == SubSeq(buf, 1, n)

bridge_frame == <<manager_vars, pc, kind, call_vars, socks_vars, dir_vars,
                  crypto_vars, session_vars, relay_vars, cell_vars, weight_vars,
                  suitable, parser_vars>>

\* A copy task at its read: client_read.read(&mut buf) / target_read.read
\* returns Ok(n) with n bytes in the buffer, Ok(0) at the end of the stream
\* or Err.
copy_read(d) ==
    /\ bridge[d].task = "running"
    /\ bridge[d].n = 0
    /\ \E ev \in ReadEvents :
         CASE ev = "data" ->
                /\ bridge[d].rd < Len(bridge[d].src)
                /\ \E n \in 1..BufLen :
                     /\ bridge[d].rd + n <= Len(bridge[d].src)
                     /\ bridge' = [bridge EXCEPT
                            ![d].buf = read_into(@, bridge[d].src, bridge[d].rd, n),
                            ![d].rd = @ + n,
                            ![d].n = n,
                            ![d].wr = 0]
           [] ev = "eof" ->
                /\ bridge[d].rd = Len(bridge[d].src)
                /\ bridge' = [bridge EXCEPT ![d].task = "eof"]
           [] ev = "err" ->
                bridge' = [bridge EXCEPT ![d].task = "failed"]
    /\ UNCHANGED bridge_frame

\* target_write.write_all(&buf[..n]) / client_write.write_all, one write of
\* it: some of the bytes left are written, or the write fails and the loop
\* ends.
copy_write(d) ==
    /\ bridge[d].task = "running"
    /\ bridge[d].n > 0
    /\ \E k \in 0..BufLen :
         IF k = 0
         THEN bridge' = [bridge EXCEPT ![d].task = "failed"]
         ELSE /\ bridge[d].wr + k <= Len(buf_slice(bridge[d].buf, bridge[d].n))
              /\ bridge' = [bridge EXCEPT
                     ![d].dst = @ \o SubSeq(buf_slice(bridge[d].buf, bridge[d].n),
                                            bridge[d].wr + 1, bridge[d].wr + k),
                     ![d].wr = IF bridge[d].wr + k = Len(buf_slice(bridge[d].buf, bridge[d].n))
                               THEN 0 ELSE @ + k,
                     ![d].n = IF bridge[d].wr + k = Len(buf_slice(bridge[d].buf, bridge[d].n))
                              THEN 0 ELSE @]
    /\ UNCHANGED bridge_frame

\* ------------------------------------------------------- cells, by bytes

\* u16::to_be_bytes
u16_to_be_bytes(n) == <<(n \div 256) % 256, n % 256>>

\* The four bytes of a u32, the low byte first.
u32_to_le_bytes(n) ==
    <<n % 256, (n \div 256) % 256, (n \div 65536) % 256, (n \div 16777216) % 256>>

\* u32::to_be_bytes
u32_to_be_bytes(n) ==
    <<(n \div 16777216) % 256, (n \div 65536) % 256, (n \div 256) % 256, n % 256>>

\* Create2Cell::new
Create2Cell_new(key) == [handshake_type |-> 2, handshake_data |-> key]

\* Create2Cell::to_bytes; the length is cast to u16.
Create2Cell_to_bytes(cell) ==
    u16_to_be_bytes(cell.handshake_type)
    \o u16_to_be_bytes(Len(cell.handshake_data) % 65536)
    \o cell.handshake_data

\* Vec::resize(n, 0): cut to n bytes or filled with zeros up to n.
resize(bytes, n) == [i \in 1..n |-> IF i <= Len(bytes) THEN bytes[i] ELSE 0]

\* cell_bytes of perform_handshakes: circ_id, command, payload, resized to
\* the length of a cell.
serialize_cell(circ_id, command, payload) ==
    resize(u32_to_be_bytes(circ_id) \o <<command>> \o payload, CellLen)

\* from_bytes with the key and the tag taken from the start of the payload.
from_bytes_no_offset(payload) ==
    IF Len(payload) < 2 THEN Created2Err("Payload too short for CREATED2 cell")
    ELSE IF u16_from_be_bytes(SubSeq(payload, 1, 2)) # Created2Hlen
    THEN Created2Err("Invalid HLEN for CREATED2 cell")
    ELSE IF Len(payload) < 2 + Created2Hlen
    THEN Created2Err("Payload too short for CREATED2 cell")
    ELSE Created2Ok(SubSeq(payload, 1, 32), SubSeq(payload, 33, 64))

\* Created2Cell::from_bytes on the bytes of the payload: hdata is
\* payload[2..], the key hdata[0..32], the tag hdata[32..64].
from_bytes(payload) ==
    IF Len(payload) < 2 THEN Created2Err("Payload too short for CREATED2 cell")
    ELSE IF u16_from_be_bytes(SubSeq(payload, 1, 2)) # Created2Hlen
    THEN Created2Err("Invalid HLEN for CREATED2 cell")
    ELSE IF Len(payload) < 2 + Created2Hlen
    THEN Created2Err("Payload too short for CREATED2 cell")
    ELSE Created2Ok(SubSeq(payload, 2 + 1, 2 + 32), SubSeq(payload, 2 + 33, 2 + 64))

\* 32-byte values: keys and tags. Those of a seed differ in every byte from
\* their neighbours; one is [0xAA; 32], one [3; 32], and one starts with the
\* bytes 00 40.
Bytes32 ==
    { [i \in 1..32 |-> (seed * 16 + i) % 256] : seed \in 1..MaxKeys }
    \cup { [i \in 1..32 |-> 170], [i \in 1..32 |-> 3],
           [i \in 1..32 |-> IF i = 2 THEN Created2Hlen ELSE 0] }

\* Circuit ids: the first, the last of the model, two whose bytes differ and
\* 0x7FFFFFFF (the ids of the upper half of a u32 are not drawn).
CellCircIds == {1, MaxCircuitId, 258, 16909060, 2147483647}

\* Bytes after the handshake data: none, one, or the zeros that fill the
\* cell up to CellLen.
Padding ==
    { << >>, <<0>>,
      [i \in 1..(CellLen - CellHeaderLen - 2 - Created2Hlen) |-> 0] }

\* The payloads a relay is taken to send: a key and a tag behind a length
\* field of 64, of another value or of one byte, the handshake data whole or
\* a byte short; a key and a tag with no length field; nothing.
ResponsePayloads ==
    { u16_to_be_bytes(hlen) \o key \o auth \o pad :
        hlen \in {Created2Hlen, 32, 16384}, key \in Bytes32, auth \in Bytes32,
        pad \in Padding }
    \cup { u16_to_be_bytes(Created2Hlen) \o key \o SubSeq(auth, 1, 31) :
             key \in Bytes32, auth \in Bytes32 }
    \cup { key \o auth : key \in Bytes32, auth \in Bytes32 }
    \cup { << >>, <<0>>, <<0, Created2Hlen>> }

cell_frame == <<manager_vars, pc, kind, call_vars, socks_vars, dir_vars,
                crypto_vars, session_vars, relay_vars,
                weight_vars,
                 fn_vars>>

\* perform_handshakes, steps 2 and 4: the CREATE2 cell is built, serialized
\* and written to the relay (a write that fails leaves nothing written).
write_create2_cell ==
    /\ client_public_key # << >>
    /\ cell_written = << >>
    /\ cell_written' =
         serialize_cell(cell_circ_id, CELL_COMMAND_CREATE2,
                        Create2Cell_to_bytes(Create2Cell_new(client_public_key)))
    /\ UNCHANGED <<client_public_key, cell_circ_id, response_payload, created2,
                   cell_frame>>

\* perform_handshakes, step 6: Created2Cell::from_bytes(response_payload).
parse_created2 ==
    /\ client_public_key # << >>
    /\ created2 = NoCreated2
    /\ created2' = from_bytes(response_payload)
    /\ UNCHANGED <<client_public_key, cell_circ_id, cell_written, response_payload,
                   cell_frame>>

\* ------------------------------------------------- directory client cache

\* Duration::from_secs(3600) of is_consensus_fresh
FreshnessSecs == 3600

\* The instants at which the clock is read.
Clock == { k * (FreshnessSecs \div 2) : k \in 0..MaxTicks }

\* is_consensus_fresh with the bound included.
is_consensus_fresh_inclusive(last, n) ==
    n >= last /\ n - last <= FreshnessSecs

\* is_consensus_fresh: age < 3600 s, the age being now - last_update, or
\* Duration::from_secs(u64::MAX) when duration_since fails because the clock
\* reads earlier than last_update.
is_consensus_fresh(last, n) ==
    n >= last /\ n - last < FreshnessSecs

\* A relay record of a document: the id of its "r " line and whether
\* parse_relay accepts it.
RelayRecords == [id : {"A", "B"}, ok : BOOLEAN]

\* The documents a download returns.
Documents == UNION { [1..n -> RelayRecords] : n \in 0..MaxRecords }

\* The relay map parse_consensus builds: the records parse_relay accepts,
\* keyed by id.
parsed_relays(doc) == { doc[i].id : i \in { j \in 1..Len(doc) : doc[j].ok } }

\* parse_consensus without the test of relays.is_empty().
parse_consensus_unchecked(doc) == FetchOk(parsed_relays(doc))

\* parse_consensus
parse_consensus(doc) ==
    IF parsed_relays(doc) = {} THEN FetchErr("InvalidConsensus")
    ELSE FetchOk(parsed_relays(doc))

\* ------------------------------------------------- the parser, by lines

\* let mut bandwidth = 1000000u32
DefaultBandwidth == 1000000

\* for offset in 0..5
BandwidthWindow == 5

\* A line of a document: what it starts with ("r", "s", "w" or anything
\* else), for an "r " line the identity (parts[2]) and whether parse_relay
\* accepts the line, and the value of the first part "Bandwidth=<u32>" after
\* the first word, 0 when the line has none.
Line(starts, id, ok, bw) == [kind |-> starts, id |-> id, ok |-> ok, bw |-> bw]

\* The lines of the documents: well-formed "r " lines of two identities, a
\* malformed "r " line, an "s " line, "w Bandwidth=2500000", a "w " line
\* without a number and a line of another kind.
DocumentLines ==
    { Line("r", "A", TRUE, 0), Line("r", "B", TRUE, 0), Line("r", "A", FALSE, 0),
      Line("s", "", FALSE, 0), Line("w", "", FALSE, 2500000),
      Line("w", "", FALSE, 0), Line("p", "", FALSE, 0) }

LineDocuments == UNION { [1..n -> DocumentLines] : n \in 0..MaxLines }

\* lines[i], the index counted from 0
line_at(ls, i) == ls[i + 1]

\* lines[i].trim().starts_with("r ")
starts_with_r(ls, i) == line_at(ls, i).kind = "r"

\* parse_bandwidth(line)
parse_bandwidth(line) == line.bw

\* parse_relay: j after the flags, past the "s " line when one follows.
flags_end(ls, i) ==
    IF i + 1 < Len(ls) /\ line_at(ls, i + 1).kind = "s" THEN i + 2 ELSE i + 1

\* parse_relay: the loop over offset, from offset on.
RECURSIVE bandwidth_from(_, _, _)
bandwidth_from(ls, j, offset) ==
    IF offset >= BandwidthWindow THEN DefaultBandwidth
    ELSE IF j + offset < Len(ls) /\ parse_bandwidth(line_at(ls, j + offset)) # 0
    THEN parse_bandwidth(line_at(ls, j + offset))
    ELSE bandwidth_from(ls, j, offset + 1)

\* The index left at j.
index_after_relay_at_j(j) == j

\* *i = j - 1
index_after_relay(j) == j - 1

\* A RelayDescriptor: its id, the index of its "r " line, the index of the
\* "s " line its flags were read from (-1: the default flags) and its
\* bandwidth.
RelayDescriptor(id, at, flags_at, bandwidth) ==
    [id |-> id, at |-> at, flags_at |-> flags_at, bandwidth |-> bandwidth]

\* Result<RelayDescriptor, DirectoryError> of parse_relay(&lines, &mut i),
\* with the value of i after the call.
parse_relay(ls, i) ==
    IF ~line_at(ls, i).ok
    THEN [ok |-> FALSE, i |-> i, relay |-> RelayDescriptor("", i, -1, 0)]
    ELSE [ok |-> TRUE,
          i |-> index_after_relay(flags_end(ls, i)),
          relay |-> RelayDescriptor(line_at(ls, i).id, i,
                                    IF flags_end(ls, i) = i + 2 THEN i + 1 ELSE -1,
                                    bandwidth_from(ls, flags_end(ls, i), 0))]

\* The inner loop with one line more skipped.
RECURSIVE next_r_line_past(_, _)
next_r_line_past(ls, i) ==
    IF i + 1 < Len(ls) /\ ~starts_with_r(ls, i + 1)
    THEN next_r_line_past(ls, i + 1) ELSE i + 2

\* while i < lines.len() && !lines[i].trim().starts_with("r ") { i += 1 }
RECURSIVE next_r_line(_, _)
next_r_line(ls, i) ==
    IF i < Len(ls) /\ ~starts_with_r(ls, i) THEN next_r_line(ls, i + 1) ELSE i

parser_frame == <<manager_vars, pc, kind, call_vars, socks_vars, dir_vars,
                  crypto_vars, session_vars, relay_vars, cell_vars, weight_vars,
                  suitable, bridge>>

\* One pass of the outer loop up to the end of the match: a line that is no
\* "r " line is passed, an "r " line is handed to parse_relay and the relay
\* inserted when parse_relay returns Ok.
parse_consensus_line ==
    /\ parse_pc = "loop"
    /\ line_i < Len(lines)
    /\ IF starts_with_r(lines, line_i)
       THEN /\ handed' = Append(handed, line_i)
            /\ line_i' = parse_relay(lines, line_i).i
            /\ relay_map' =
                 IF parse_relay(lines, line_i).ok
                 THEN [id \in DOMAIN relay_map \cup {parse_relay(lines, line_i).relay.id} |->
                         IF id = parse_relay(lines, line_i).relay.id
                         THEN parse_relay(lines, line_i).relay
                         ELSE relay_map[id]]
                 ELSE relay_map
            /\ parse_pc' = "skip"
       ELSE /\ line_i' = line_i + 1
            /\ UNCHANGED <<handed, relay_map, parse_pc>>
    /\ UNCHANGED <<lines, parse_result, parser_frame>>

\* "Skip to next potential r": i += 1, the inner loop, continue.
parse_consensus_skip ==
    /\ parse_pc = "skip"
    /\ line_i' = next_r_line(lines, line_i + 1)
    /\ parse_pc' = "loop"
    /\ UNCHANGED <<lines, relay_map, handed, parse_result, parser_frame>>

\* The end of the loop: InvalidConsensus for an empty map, the consensus
\* otherwise.
parse_consensus_return ==
    /\ parse_pc = "loop"
    /\ line_i >= Len(lines)
    /\ parse_result' = IF DOMAIN relay_map = {} THEN FetchErr("InvalidConsensus")
                       ELSE FetchOk(DOMAIN relay_map)
    /\ parse_pc' = "done"
    /\ UNCHANGED <<lines, line_i, relay_map, handed, parser_frame>>

\* The relay map of create_mock_consensus, each id standing for the mock
\* relays of that name.
mock_relays == {"Guard", "Middle", "Exit", "Fallback"}

\* What one download_and_parse(url) can return: the request fails or the
\* document is parsed.
DownloadResults ==
    {FetchErr("RequestFailed")} \cup { parse_consensus(doc) : doc \in Documents }

\* What is left alone by the steps of the directory cache.
cache_frame == <<manager_vars, pc, kind, call_vars, socks_vars, consensus,
                 sel_hop, sel_result, crypto_vars, unit_vars>>

\* fetch_consensus up to the fetch: the cached consensus is returned when it is
\* fresh and present.
fetch_consensus_begin(t) ==
    /\ fc_pc[t] = "idle"
    /\ IF is_consensus_fresh(last_update, now) /\ cached_consensus.some
       THEN /\ fc_result' = [fc_result EXCEPT ![t] = FetchOk(cached_consensus.relays)]
            /\ fc_pc' = [fc_pc EXCEPT ![t] = "done"]
       ELSE /\ fc_pc' = [fc_pc EXCEPT ![t] = "fetching"]
            /\ UNCHANGED fc_result
    /\ UNCHANGED <<use_real_consensus, cached_consensus, last_update, now,
                   hour_offset, fetched, fetch_now, tried, consensus_from,
                   last_update_from, cache_frame>>

\* The hour of the object asked for hour_offset hours after the hour of
\* the call.
url_hour_forward(ts, offset) == (ts + offset * 3600) \div 3600

\* The url of fetch_latest_consensus: the archive object of the hour (year,
\* month, day and hour, here the hours since the epoch) of
\* now - Duration::hours(hour_offset).
url_hour(ts, offset) == (ts - offset * 3600) \div 3600

\* An attempt of fetch_latest_consensus: the hour asked for and whether
\* download_and_parse returned Ok.
Attempt(hour, ok) == [hour |-> hour, ok |-> ok]

\* let now = Utc::now() of fetch_latest_consensus: the clock is read once,
\* before the first iteration.
fetch_latest_consensus_now(t) ==
    IF tried[t] = << >> THEN now ELSE fetch_now[t]

\* One iteration of fetch_latest_consensus: download_and_parse(url) fails in
\* the request or returns what parse_consensus makes of the document; Ok ends
\* the loop, the last Err makes way for RequestFailed.
download_and_parse(t) ==
    /\ fc_pc[t] = "fetching"
    /\ use_real_consensus
    /\ \E res \in DownloadResults :
         /\ IF res.ok
            THEN /\ fetched' = [fetched EXCEPT ![t] = res]
                 /\ fc_pc' = [fc_pc EXCEPT ![t] = "fetched"]
                 /\ UNCHANGED hour_offset
            ELSE IF hour_offset[t] + 1 < MaxHourOffsets
            THEN /\ fetched' = [fetched EXCEPT ![t] = res]
                 /\ hour_offset' = [hour_offset EXCEPT ![t] = @ + 1]
                 /\ UNCHANGED fc_pc
            ELSE /\ fetched' = [fetched EXCEPT ![t] = FetchErr("RequestFailed")]
                 /\ fc_pc' = [fc_pc EXCEPT ![t] = "fetched"]
                 /\ UNCHANGED hour_offset
    /\ UNCHANGED <<use_real_consensus, cached_consensus, last_update, now,
                   fc_result, consensus_from,
                   last_update_from, cache_frame>>

\* The same iteration with the url it builds: the hour asked for is that of
\* the time read before the loop, hour_offset hours back.
fetch_latest_consensus(t) ==
    /\ download_and_parse(t)
    /\ fetch_now' = [fetch_now EXCEPT ![t] = fetch_latest_consensus_now(t)]
    /\ tried' = [tried EXCEPT
                   ![t] = Append(@, Attempt(url_hour(fetch_latest_consensus_now(t),
                                                     hour_offset[t]),
                                            fetched'[t].ok))]

\* create_mock_consensus, which cannot fail.
create_mock_consensus(t) ==
    /\ fc_pc[t] = "fetching"
    /\ ~use_real_consensus
    /\ fetched' = [fetched EXCEPT ![t] = FetchOk(mock_relays)]
    /\ fc_pc' = [fc_pc EXCEPT ![t] = "fetched"]
    /\ UNCHANGED <<use_real_consensus, cached_consensus, last_update, now,
                   hour_offset, fc_result, fetch_now, tried, consensus_from,
                   last_update_from, cache_frame>>

\* The "?" with every result taken for Ok.
fetch_error_returns_never(res) == FALSE

\* The "?" on the result of the fetch: an Err is returned to the caller.
fetch_error_returns(res) == ~res.ok

\* The "?" after fetch_latest_consensus / create_mock_consensus.
fetch_consensus_try(t) ==
    /\ fc_pc[t] = "fetched"
    /\ IF fetch_error_returns(fetched[t])
       THEN /\ fc_result' = [fc_result EXCEPT ![t] = fetched[t]]
            /\ fc_pc' = [fc_pc EXCEPT ![t] = "done"]
       ELSE /\ fc_pc' = [fc_pc EXCEPT ![t] = "install"]
            /\ UNCHANGED fc_result
    /\ fetch_now' = [fetch_now EXCEPT ![t] = 0]
    /\ tried' = [tried EXCEPT ![t] = << >>]
    /\ UNCHANGED <<use_real_consensus, cached_consensus, last_update, now,
                   hour_offset, fetched, consensus_from,
                   last_update_from, cache_frame>>

\* *self.consensus.write().await = Some(consensus.clone())
install_consensus(t) ==
    /\ fc_pc[t] = "install"
    /\ cached_consensus' = SomeConsensus(fetched[t].relays)
    /\ fc_pc' = [fc_pc EXCEPT ![t] = "stamp"]
    /\ UNCHANGED <<use_real_consensus, last_update, now, hour_offset, fetched,
                   fc_result, fetch_now, tried, cache_frame>>

\* *self.last_update.write().await = SystemTime::now(), and Ok(consensus)
install_last_update(t) ==
    /\ fc_pc[t] = "stamp"
    /\ last_update' = now
    /\ fc_result' = [fc_result EXCEPT ![t] = FetchOk(fetched[t].relays)]
    /\ fc_pc' = [fc_pc EXCEPT ![t] = "done"]
    /\ UNCHANGED <<use_real_consensus, cached_consensus, now, hour_offset,
                   fetched, fetch_now, tried, cache_frame>>

\* The two writes with their writer noted.
publish_consensus(t) ==
    /\ install_consensus(t)
    /\ consensus_from' = t
    /\ UNCHANGED last_update_from

publish_last_update(t) ==
    /\ install_last_update(t)
    /\ last_update_from' = t
    /\ UNCHANGED consensus_from

\* The caller has its result; the call is over.
fetch_consensus_return(t) ==
    /\ fc_pc[t] = "done"
    /\ fc_pc' = [fc_pc EXCEPT ![t] = "idle"]
    /\ hour_offset' = [hour_offset EXCEPT ![t] = 0]
    /\ fetched' = [fetched EXCEPT ![t] = NoFetch]
    /\ fc_result' = [fc_result EXCEPT ![t] = NoFetch]
    /\ UNCHANGED <<use_real_consensus, cached_consensus, last_update, now,
                   fetch_now, tried, consensus_from,
                   last_update_from, cache_frame>>

\* The system clock moves, forwards or (SystemTime is not monotonic)
\* backwards.
clock_set(n) ==
    /\ n # now
    /\ now' = n
    /\ UNCHANGED <<use_real_consensus, cached_consensus, last_update, fc_pc,
                   hour_offset, fetched, fc_result, fetch_now, tried, consensus_from,
                   last_update_from, cache_frame>>

\* ------------------------------------------------------------ onion crypto

Plaintexts == 1..MaxPlaintexts

\* The keys a ciphertext can have been sealed with: the forward key of the
\* instance or another key.
Keys == {"forward", "backward"}

\* The ciphertexts handed to decrypt_forward: whatever the instance or a
\* peer holding a key has sealed.
Ciphertexts == { Sealed(p, k, n) : p \in Plaintexts, k \in Keys, n \in 0..NonceMax }

\* generate_nonce: the counter in the low 8 of the 12 bytes, the counter
\* itself here.
generate_nonce(nonce) == nonce

\* seal_in_place_separate_tag followed by the tag appended.
seal(plain, key, nonce) == Sealed(plain, key, nonce)

\* open_in_place: the plaintext when key and nonce are those of the seal,
\* 0 when the tag does not verify.
open(ct, key, nonce) ==
    IF ct.key = key /\ ct.nonce = nonce THEN ct.plain ELSE 0

\* The counter left as it is.
nonce_after_same(n) == n

\* self.forward_nonce += 1, below the maximum.
nonce_after(n) == n + 1

\* What "+= 1" does at u64::MAX: a panic in a build with overflow checks, a
\* wrap to 0 in one without.
OverflowOutcomes == {"panic", "wrap"}

crypto_frame == <<manager_vars, pc, kind, call_vars, socks_vars, dir_vars,
                  unit_vars>>

\* OnionCrypto::encrypt_forward(plaintext)
encrypt_forward(plain) ==
    /\ \E overflow \in OverflowOutcomes :
         IF forward_nonce = NonceMax /\ overflow = "panic"
         THEN /\ crypto_result' = CryptoCall("encrypt", FALSE, "Panic", plain, NoCiphertext)
              /\ UNCHANGED <<forward_nonce, seal_nonces>>
         ELSE /\ forward_nonce' = IF forward_nonce = NonceMax THEN 0
                                  ELSE nonce_after(forward_nonce)
              /\ seal_nonces' = Append(seal_nonces, generate_nonce(forward_nonce))
              /\ crypto_result' =
                   CryptoCall("encrypt", TRUE, "None", plain,
                              seal(plain, "forward", generate_nonce(forward_nonce)))
    /\ UNCHANGED crypto_frame

\* OnionCrypto::decrypt_forward(ciphertext)
decrypt_forward(ct) ==
    /\ \E overflow \in OverflowOutcomes :
         IF forward_nonce = NonceMax /\ overflow = "panic"
         THEN /\ crypto_result' = CryptoCall("decrypt", FALSE, "Panic", 0, ct)
              /\ UNCHANGED forward_nonce
         ELSE /\ forward_nonce' = IF forward_nonce = NonceMax THEN 0
                                  ELSE nonce_after(forward_nonce)
              /\ crypto_result' =
                   IF open(ct, "forward", generate_nonce(forward_nonce)) # 0
                   THEN CryptoCall("decrypt", TRUE, "None",
                                   open(ct, "forward", generate_nonce(forward_nonce)), ct)
                   ELSE CryptoCall("decrypt", FALSE, "RingError", 0, ct)
    /\ UNCHANGED <<seal_nonces, crypto_frame>>

\* ---------------------------------------------------------- specifications

TaskStep(t) ==
    \/ \E n \in 0..MaxHops : api_call(t, n)
    \/ create_circuit_alloc(t)
    \/ create_circuit_select(t)
    \/ create_circuit_store(t)
    \/ perform_handshakes_begin(t)
    \/ perform_handshakes_connect(t)
    \/ perform_handshakes_write(t)
    \/ perform_handshakes_read(t)
    \/ create_circuit_ready(t)
    \/ api_return(t)
    \/ task_aborted(t)
    \/ perform_handshake(t)
    \/ parse_request(t)
    \/ send_response(t)
    \/ socks_close(t)
    \/ socks_connect_target(t)
    \/ client_to_target(t)
    \/ target_to_client(t)
    \/ relay_join(t)

EnvStep(t) ==
    \/ socks_accept(t)
    \/ \E r \in RelayResponses(circuit_id[t]) : relay_respond(t, r)

Next == \E t \in Tasks : TaskStep(t) \/ EnvStep(t)

Spec == Init /\ [][Next]_vars

\* The runtime runs every task that can take a step; nothing is assumed of
\* the clients and the relays.
LiveSpec == Spec /\ \A t \in Tasks : WF_vars(TaskStep(t))

\* DirSpec: select_relay(hop) on a snapshot drawn from Consensuses.
DirInit ==
    /\ FunctionsIdle
    /\ ManagerNew
    /\ TasksIdle
    /\ DirectoryNew(FALSE)
    /\ OnionCryptoNew
    /\ SessionIdle
    /\ RelayIdle
    /\ CellsIdle
    /\ sel_draw = -1
    /\ consensus \in Consensuses
    /\ sel_hop = -1
    /\ sel_result = NoSuitableRelays

dir_select_relay(hop) ==
    /\ \E r \in select_relay_results(consensus, hop) :
         /\ sel_hop' = hop
         /\ sel_result' = r
    /\ UNCHANGED <<manager_vars, pc, kind, call_vars, socks_vars, consensus,
                   cache_vars, crypto_vars, unit_vars>>

DirNext == \E hop \in 0..MaxHops : dir_select_relay(hop)

DirSpec == DirInit /\ [][DirNext]_vars

\* CacheSpec: concurrent fetch_consensus calls on one directory client, real
\* or mock, under a clock that starts anywhere.
CacheInit ==
    /\ FunctionsIdle
    /\ ManagerNew
    /\ TasksIdle
    /\ OnionCryptoNew
    /\ SessionIdle
    /\ RelayIdle
    /\ CellsIdle
    /\ sel_draw = -1
    /\ consensus = SpecConsensus
    /\ sel_hop = -1
    /\ sel_result = NoSuitableRelays
    /\ use_real_consensus \in BOOLEAN
    /\ cached_consensus = NoConsensus
    /\ last_update = 0
    /\ now \in Clock
    /\ consensus_from = "new"
    /\ last_update_from = "new"
    /\ FetchIdle

\* CacheSpec does not follow which hour an iteration asks for, nor which
\* call wrote the cache last.
FetchStep(t) ==
    \/ fetch_consensus_begin(t)
    \/ download_and_parse(t) /\ UNCHANGED <<fetch_now, tried>>
    \/ create_mock_consensus(t)
    \/ fetch_consensus_try(t)
    \/ install_consensus(t) /\ UNCHANGED <<consensus_from, last_update_from>>
    \/ install_last_update(t) /\ UNCHANGED <<consensus_from, last_update_from>>
    \/ fetch_consensus_return(t)

CacheNext ==
    \/ \E t \in Tasks : FetchStep(t)
    \/ \E n \in Clock : clock_set(n)

CacheSpec == CacheInit /\ [][CacheNext]_vars

\* FetchSpec: the fetch_consensus calls of one task on a real directory
\* client, with the hours fetch_latest_consensus asks for.
FetchInit ==
    /\ CacheInit
    /\ use_real_consensus

Fetcher == CHOOSE t \in Tasks : TRUE

FetchNext ==
    \/ fetch_consensus_begin(Fetcher)
    \/ fetch_latest_consensus(Fetcher)
    \/ fetch_consensus_try(Fetcher)
    \/ install_consensus(Fetcher) /\ UNCHANGED <<consensus_from, last_update_from>>
    \/ install_last_update(Fetcher) /\ UNCHANGED <<consensus_from, last_update_from>>
    \/ fetch_consensus_return(Fetcher)
    \/ \E n \in Clock : clock_set(n)

FetchSpec == FetchInit /\ [][FetchNext]_vars

\* PublishSpec: concurrent fetch_consensus calls on a mock directory client,
\* with the writer of the snapshot and the writer of the timestamp.
PublishInit ==
    /\ CacheInit
    /\ ~use_real_consensus

PublishNext ==
    \/ \E t \in Tasks :
         \/ fetch_consensus_begin(t)
         \/ create_mock_consensus(t)
         \/ fetch_consensus_try(t)
         \/ publish_consensus(t)
         \/ publish_last_update(t)
         \/ fetch_consensus_return(t)
    \/ \E n \in Clock : clock_set(n)

PublishSpec == PublishInit /\ [][PublishNext]_vars

\* SocksSpec: one session, from the accepted connection to the call of
\* create_circuit, on what a client of Clients(atyp) sends.
SessionInit ==
    /\ FunctionsIdle
    /\ ManagerNew
    /\ TasksIdle
    /\ DirectoryNew(FALSE)
    /\ OnionCryptoNew
    /\ consensus = SpecConsensus
    /\ sel_hop = -1
    /\ sel_result = NoSuitableRelays
    /\ RelayIdle
    /\ CellsIdle
    /\ sel_draw = -1
    /\ \E atyp \in ClientAddressTypes : client \in Clients(atyp)
    /\ stream_pos = 0
    /\ client_reply = << >>
    /\ session_pc = "handshake"
    /\ session_err = "None"
    /\ request = NoRequest

SessionNext ==
    \/ handle_client_handshake
    \/ handle_client_request

SocksSpec == SessionInit /\ [][SessionNext]_vars

\* RelaySpec: one session from the spawn of its two copy tasks on, with a
\* client and a target that send, close, break or stay silent.
RelayInit ==
    /\ FunctionsIdle
    /\ ManagerNew
    /\ TasksIdle
    /\ DirectoryNew(FALSE)
    /\ OnionCryptoNew
    /\ consensus = SpecConsensus
    /\ sel_hop = -1
    /\ sel_result = NoSuitableRelays
    /\ SessionIdle
    /\ CellsIdle
    /\ sel_draw = -1
    /\ relay_pc = "relay"
    /\ c2t_task = "running"
    /\ t2c_task = "running"
    /\ client_in = "none"
    /\ target_in = "none"
    /\ to_target = 0
    /\ to_client = 0

RelayTasks ==
    \/ copy_client_to_target
    \/ copy_target_to_client
    \/ join_copy_tasks

RelayPeers ==
    \/ \E ev \in ReadEvents : client_writes(ev)
    \/ \E ev \in ReadEvents : target_writes(ev)

RelayNext == RelayTasks \/ RelayPeers

RelaySpec == RelayInit /\ [][RelayNext]_vars

\* The runtime runs each spawned task and the handler whenever it can go on;
\* nothing is assumed of the client and the target.
RelayLiveSpec ==
    /\ RelaySpec
    /\ WF_vars(copy_client_to_target)
    /\ WF_vars(copy_target_to_client)
    /\ WF_vars(join_copy_tasks)

\* CellSpec: the CREATE2 cell of any key and circuit id, and from_bytes on
\* any payload of ResponsePayloads.
CellInit ==
    /\ FunctionsIdle
    /\ ManagerNew
    /\ TasksIdle
    /\ DirectoryNew(FALSE)
    /\ OnionCryptoNew
    /\ consensus = SpecConsensus
    /\ sel_hop = -1
    /\ sel_result = NoSuitableRelays
    /\ SessionIdle
    /\ RelayIdle
    /\ sel_draw = -1
    /\ client_public_key \in Bytes32
    /\ cell_circ_id \in CellCircIds
    /\ cell_written = << >>
    /\ response_payload \in ResponsePayloads
    /\ created2 = NoCreated2

CellNext ==
    \/ write_create2_cell
    \/ parse_created2

CellSpec == CellInit /\ [][CellNext]_vars

\* The candidate lists select_weighted is called on: relays of any
\* bandwidth up to MaxWeight, in any order, the empty list included.
WeightedLists ==
    UNION { [1..n -> [flags : {{"Fast", "Running", "Valid"}}, bandwidth : 0..MaxWeight]] :
            n \in 0..MaxCandidates }

\* WeightSpec: select_weighted on every list of WeightedLists and every
\* value the draw can take.
WeightInit ==
    /\ FunctionsIdle
    /\ ManagerNew
    /\ TasksIdle
    /\ DirectoryNew(FALSE)
    /\ OnionCryptoNew
    /\ SessionIdle
    /\ RelayIdle
    /\ CellsIdle
    /\ consensus \in WeightedLists
    /\ sel_hop = -1
    /\ sel_result = NoSuitableRelays
    /\ sel_draw = -1

\* self.select_weighted(relays): the draw is 0 when the list is empty (no
\* draw is made).
call_select_weighted ==
    /\ sel_draw = -1
    /\ \E d \in IF Len(consensus) = 0 THEN {0}
                ELSE weighted_draws(consensus, relay_values(consensus)) :
         /\ sel_draw' = d
         /\ sel_result' = select_weighted(consensus, relay_values(consensus), d)
    /\ UNCHANGED <<manager_vars, pc, kind, call_vars, socks_vars, consensus,
                   sel_hop, cache_vars, crypto_vars, session_vars, relay_vars,
                   cell_vars, fn_vars>>

WeightNext == call_select_weighted

WeightSpec == WeightInit /\ [][WeightNext]_vars

\* SuitSpec: is_relay_suitable on a relay with any set of the flags it
\* reads, for the hops of a circuit of three (guard, middle, exit) and a hop
\* past them.
SuitInit ==
    /\ ManagerNew
    /\ TasksIdle
    /\ DirectoryNew(FALSE)
    /\ OnionCryptoNew
    /\ SessionIdle
    /\ RelayIdle
    /\ CellsIdle
    /\ FunctionsIdle
    /\ sel_draw = -1
    /\ \E F \in SUBSET Flags : consensus = <<[flags |-> F, bandwidth |-> 1]>>
    /\ sel_hop = -1
    /\ sel_result = NoSuitableRelays

\* self.is_relay_suitable(relay, hop)
call_is_relay_suitable(hop) ==
    /\ sel_hop = -1
    /\ sel_hop' = hop
    /\ suitable' = is_relay_suitable(consensus[1].flags, hop)
    /\ UNCHANGED <<manager_vars, pc, kind, call_vars, socks_vars, consensus,
                   sel_result, cache_vars, crypto_vars, session_vars, relay_vars,
                   cell_vars, weight_vars, parser_vars, bridge>>

SuitNext == \E hop \in 0..3 : call_is_relay_suitable(hop)

SuitSpec == SuitInit /\ [][SuitNext]_vars

\* ParseSpec: parse_consensus on every document of LineDocuments.
ParseInit ==
    /\ ManagerNew
    /\ TasksIdle
    /\ DirectoryNew(FALSE)
    /\ OnionCryptoNew
    /\ SessionIdle
    /\ RelayIdle
    /\ CellsIdle
    /\ sel_draw = -1
    /\ consensus = SpecConsensus
    /\ sel_hop = -1
    /\ sel_result = NoSuitableRelays
    /\ suitable = FALSE
    /\ lines \in LineDocuments
    /\ line_i = 0
    /\ parse_pc = "loop"
    /\ relay_map = << >>
    /\ handed = << >>
    /\ parse_result = NoFetch
    /\ bridge = [d \in Directions |-> CopyTask(<< >>, "idle")]

ParseNext ==
    \/ parse_consensus_line
    \/ parse_consensus_skip
    \/ parse_consensus_return

ParseSpec == ParseInit /\ [][ParseNext]_vars

\* The parser runs on.
ParseLiveSpec == ParseSpec /\ WF_vars(ParseNext)

\* BridgeSpec: the two copy tasks on everything the client and the target
\* can send.
BridgeInit ==
    /\ ManagerNew
    /\ TasksIdle
    /\ DirectoryNew(FALSE)
    /\ OnionCryptoNew
    /\ SessionIdle
    /\ RelayIdle
    /\ CellsIdle
    /\ sel_draw = -1
    /\ consensus = SpecConsensus
    /\ sel_hop = -1
    /\ sel_result = NoSuitableRelays
    /\ suitable = FALSE
    /\ lines = << >>
    /\ line_i = 0
    /\ parse_pc = "idle"
    /\ relay_map = << >>
    /\ handed = << >>
    /\ parse_result = NoFetch
    /\ \E c \in Sources("client_to_target"), t \in Sources("target_to_client") :
         bridge = [d \in Directions |->
                     CopyTask(IF d = "client_to_target" THEN c ELSE t, "running")]

BridgeNext == \E d \in Directions : copy_read(d) \/ copy_write(d)

BridgeSpec == BridgeInit /\ [][BridgeNext]_vars

\* The calls on one OnionCrypto instance.
CryptoCalls ==
    \/ \E plain \in Plaintexts : encrypt_forward(plain)
    \/ \E ct \in Ciphertexts : decrypt_forward(ct)

\* CryptoSpec: the instance is used while its counter is below the maximum.
CryptoNext == forward_nonce < NonceMax /\ CryptoCalls

CryptoSpec == Init /\ [][CryptoNext]_vars

\* WrapSpec: the instance is used up to and past the maximum of its counter,
\* for NonceMax + 2 seals at most.
WrapNext == Len(seal_nonces) <= NonceMax + 1 /\ CryptoCalls

WrapSpec == Init /\ [][WrapNext]_vars

\* ------------------------------------------------------------------ claims

\* Tasks inside a create_circuit call that hold their id.
HoldsId(t) ==
    pc[t] \in {"select", "handshake", "hs_connect", "hs_write", "hs_read",
               "mark_ready", "returned", "socks_reply", "socks_close",
               "panicked"}

\* The call of task t has returned an error to its caller.
ReturnedErr(t) ==
    pc[t] \in {"returned", "socks_reply", "socks_close"} /\ ~result[t].ok

\* C1: no session ever holds a TCP connection of its own to the CONNECT
\* target, and no client byte is written anywhere but to the circuit's guard
\* connection.
C1_NoDirectConnectionToTarget ==
    \A t \in Tasks : ~direct_target[t] /\ bytes_direct[t] = 0

\* C2: a Ready circuit has every one of its hops keyed by a handshake of
\* its own whose auth tag matched.
C2_ReadyOnlyAfterEveryHop ==
    \A id \in DOMAIN circuits :
        circuits[id].state = "Ready" =>
            \A i \in 1..Len(circuits[id].hops) : circuits[id].hops[i].keyed

\* C3: no two create_circuit calls are assigned the same id, whether they
\* fail or succeed, and whatever the interleaving: the ids taken so far are
\* pairwise different, and so are the ids of the calls in flight.
C3_IdsNeverReused ==
    /\ \A i, j \in 1..Len(assigned) : i # j => assigned[i] # assigned[j]
    /\ \A t, u \in Tasks :
         (t # u /\ HoldsId(t) /\ HoldsId(u)) => circuit_id[t] # circuit_id[u]

\* C3 witness: two calls hold ids at once, one of which has failed.
C3_Witness ==
    \E t, u \in Tasks :
        /\ t # u
        /\ HoldsId(t)
        /\ HoldsId(u)
        /\ ReturnedErr(t)
        /\ circuit_id[t] < circuit_id[u]

\* C4: the first id assigned is 1, every id is greater than 0 and each id
\* is strictly greater than the ids assigned before it.
C4_IdsFromOneIncreasing ==
    /\ Len(assigned) >= 1 => assigned[1] = 1
    /\ \A i \in 1..Len(assigned) : assigned[i] > 0
    /\ \A i \in 1..Len(assigned) : i > 1 => assigned[i] > assigned[i - 1]
    /\ \A t \in Tasks : result[t].ok => circuit_id[t] > 0

\* C4 witness: a second id was assigned and its call returned Ok.
C4_Witness ==
    /\ Len(assigned) >= 2
    /\ \E t \in Tasks : result[t].ok /\ circuit_id[t] = assigned[2]

\* C5: once create_circuit has returned Ok(id), the circuit id is stored and
\* get_circuit_state(id) is Ready.
C5_OkMeansStoredAndReady ==
    \A t \in Tasks :
        result[t].ok =>
            /\ circuit_id[t] \in DOMAIN circuits
            /\ get_circuit_state(circuit_id[t]) = "Ready"

\* C5 witness: a direct caller holds Ok(id).
C5_Witness ==
    \E t \in Tasks : pc[t] = "returned" /\ result[t].ok

\* C6: when create_circuit has returned an error after storing the circuit,
\* the stored circuit is in the state Error.
C6_FailedCircuitMarkedError ==
    \A t \in Tasks :
        (ReturnedErr(t) /\ circuit_id[t] \in DOMAIN circuits) =>
            circuits[circuit_id[t]].state = "Error"

\* The CREATED2 cell of a relay that follows the protocol.
HonestResponse(id) ==
    Received(CellLen, id, CELL_COMMAND_CREATED2, Created2Hlen, TRUE)

\* The step of task t is the end of a handshake with a relay that
\* misbehaved: it could not be connected to, or what it sent (or its closing
\* the connection) was read and is not an honest CREATED2 cell.
RelayMisbehaved(t) ==
    \/ pc[t] = "hs_connect" /\ pc'[t] \notin {"hs_connect", "hs_write"}
    \/ /\ pc[t] = "hs_read"
       /\ pc'[t] # "hs_read"
       /\ wire[t].io = "data"
       /\ wire[t] # HonestResponse(circuit_id[t])

\* C7: whenever the first relay misbehaves, create_circuit returns
\* HandshakeFailed(reason) and the calling task is not aborted.
C7_MisbehaviourReturnsHandshakeFailed ==
    [][\A t \in Tasks :
         RelayMisbehaved(t) =>
             pc'[t] # "panicked" /\ result'[t].err = "HandshakeFailed"]_vars

\* C8: a create_circuit call that waits for the response of the first relay
\* eventually stops waiting (the response is read or the deadline expires).
C8_CallEventuallyReturns ==
    \A t \in Tasks : (pc[t] = "hs_read") ~> (pc[t] # "hs_read")

\* The role rule of hop 0, 1 and 2 as C9 states it.
ClaimedRole(flags, hop) ==
    CASE hop = 0 -> "Guard" \in flags /\ "Fast" \in flags
      [] hop = 1 -> "Fast" \in flags /\ "Guard" \notin flags /\ "Exit" \notin flags
      [] hop = 2 -> "Exit" \in flags /\ "Fast" \in flags

\* The same with the Middle flag lifting the ban on Guard and Exit.
AmendedRole(flags, hop) ==
    CASE hop = 0 -> "Guard" \in flags /\ "Fast" \in flags
      [] hop = 1 -> /\ "Fast" \in flags
                    /\ \/ "Middle" \in flags
                       \/ "Guard" \notin flags /\ "Exit" \notin flags
      [] hop = 2 -> "Exit" \in flags /\ "Fast" \in flags

\* Running, Valid and not BadExit.
Usable(flags) ==
    "Running" \in flags /\ "Valid" \in flags /\ "BadExit" \notin flags

\* A relay the suitability rules of hop 0, 1, 2 accept.
Eligible(flags, hop) ==
    /\ Usable(flags)
    /\ CASE hop = 0 -> "Guard" \in flags /\ "Fast" \in flags
         [] hop = 1 -> /\ "Fast" \in flags
                       /\ \/ "Middle" \in flags
                          \/ /\ "Stable" \in flags
                             /\ "Guard" \notin flags
                             /\ "Exit" \notin flags
         [] hop = 2 -> "Exit" \in flags /\ "Fast" \in flags

\* C9 as stated: the relay select_relay(h) returns has the role of hop h.
C9_SelectedIsSuitable ==
    (sel_hop \in 0..2 /\ sel_result.ok) =>
        ClaimedRole(consensus[sel_result.relay].flags, sel_hop)

\* C9 amended: when the consensus holds a relay eligible for hop h, the relay
\* select_relay(h) returns is usable and has the role of hop h, a relay with
\* the Middle flag being taken for hop 1 with Fast alone.
C9_SelectedIsSuitableWhenAny ==
    (/\ sel_hop \in 0..2
     /\ sel_result.ok
     /\ \E i \in 1..Len(consensus) : Eligible(consensus[i].flags, sel_hop)) =>
        /\ Usable(consensus[sel_result.relay].flags)
        /\ AmendedRole(consensus[sel_result.relay].flags, sel_hop)

\* C9 witness: a relay was selected from a consensus that holds an eligible
\* relay and a usable relay that is not eligible.
C9_Witness ==
    /\ sel_hop \in 0..2
    /\ sel_result.ok
    /\ \E i, j \in 1..Len(consensus) :
         /\ Eligible(consensus[i].flags, sel_hop)
         /\ ~Eligible(consensus[j].flags, sel_hop)
         /\ Usable(consensus[j].flags)

\* C10: select_relay fails with NoSuitableRelays exactly when no relay of the
\* consensus is Running and Valid without BadExit, and when no relay is
\* suitable for the hop the relay it returns is such a relay.
C10_FallbackIsRunningValid ==
    sel_hop # -1 =>
        /\ (sel_result = NoSuitableRelays) <=>
               (\A i \in 1..Len(consensus) : ~Usable(consensus[i].flags))
        /\ (/\ sel_result.ok
            /\ \A i \in 1..Len(consensus) :
                   ~is_relay_suitable(consensus[i].flags, sel_hop)) =>
               Usable(consensus[sel_result.relay].flags)

\* The role a circuit of n hops gives its i-th hop (i from 1): guard for the
\* first, exit for the last of two or more, middle in between.
PositionRole(i, n) ==
    IF i = 1 THEN "guard" ELSE IF i = n THEN "exit" ELSE "middle"

\* The relay with these flags fits the role.
HasRole(flags, role) ==
    CASE role = "guard"  -> "Guard" \in flags /\ "Fast" \in flags
      [] role = "exit"   -> "Exit" \in flags /\ "Fast" \in flags
      [] role = "middle" -> /\ "Fast" \in flags
                            /\ \/ "Middle" \in flags
                               \/ "Guard" \notin flags /\ "Exit" \notin flags

\* C11: in every stored circuit the first hop is a guard, the last hop an
\* exit and every hop between them a middle relay, whatever the number of
\* hops (the consensus holds relays of every role).
C11_HopRolesByPosition ==
    \A id \in DOMAIN circuits :
        \A i \in 1..Len(circuits[id].hops) :
            HasRole(consensus[circuits[id].hops[i].relay].flags,
                    PositionRole(i, Len(circuits[id].hops)))

\* C19: a reply with code 0 has been written to the client of a session only
\* if the stream to the target of the session is open.
C19_SuccessReplyOnlyAfterStreamOpen ==
    \A t \in Tasks :
        (\E i \in 1..Len(socks_reply[t]) : socks_reply[t][i] = 0) =>
            direct_target[t]

\* The session of task t leaves the match on a failed create_circuit.
LeavesFailedCircuit(t) ==
    /\ pc[t] = "socks_reply"
    /\ ~result[t].ok
    /\ pc'[t] # "socks_reply"

\* C20: a session whose create_circuit returned an error writes one reply,
\* with a non-zero code, relays no byte and is closed next; the reply is
\* missing only when the write to the client fails, which ends the session
\* at once.
C20_FailedCircuitRepliesOnceAndCloses ==
    [][\A t \in Tasks :
         /\ LeavesFailedCircuit(t) =>
              /\ bytes_direct'[t] = 0
              /\ ~direct_target'[t]
              /\ \/ /\ pc'[t] = "socks_close"
                    /\ Len(socks_reply'[t]) = 1
                    /\ socks_reply'[t][1] # 0
                 \/ /\ pc'[t] = "idle"
                    /\ socks_reply'[t] = <<>>
         /\ (pc[t] = "socks_close" /\ pc'[t] # "socks_close") =>
              pc'[t] = "idle"]_vars

\* C20 witness: the failure reply of a session has been written.
C20_Witness ==
    \E t \in Tasks :
        /\ pc[t] = "socks_close"
        /\ ~result[t].ok
        /\ socks_reply[t] = <<1>>

\* The step of task t is the decision of a fetch_consensus call.
FetchDecided(t) == fc_pc[t] = "idle" /\ fc_pc'[t] # "idle"

\* The call of task t returns the cached snapshot and writes nothing.
ServedFromCache(t) ==
    /\ fc_pc'[t] = "done"
    /\ fc_result'[t] = FetchOk(cached_consensus.relays)
    /\ cached_consensus' = cached_consensus
    /\ last_update' = last_update

\* C12 as stated: a call goes to the sources exactly when no consensus is
\* cached or the last install is 3600 s old or older; otherwise it returns the
\* cached snapshot and leaves cache and timestamp as they are.
C12_FetchesIffAbsentOrStale ==
    [][\A t \in Tasks :
         FetchDecided(t) =>
             /\ (fc_pc'[t] = "fetching") <=>
                    (~cached_consensus.some \/ now - last_update >= FreshnessSecs)
             /\ (fc_pc'[t] # "fetching") => ServedFromCache(t)]_vars

\* C12 amended: the call also goes to the sources when the clock reads
\* earlier than the time of the last install.
C12_FetchesIffAbsentStaleOrClockBehind ==
    [][\A t \in Tasks :
         FetchDecided(t) =>
             /\ (fc_pc'[t] = "fetching") <=>
                    \/ ~cached_consensus.some
                    \/ now - last_update >= FreshnessSecs
                    \/ now < last_update
             /\ (fc_pc'[t] # "fetching") => ServedFromCache(t)]_vars

\* C12 witness: one call was served from the cache and, the clock having
\* been set back behind the last install, another call is fetching.
C12_Witness ==
    \E t, u \in Tasks :
        /\ fc_pc[t] = "done"
        /\ fc_result[t].ok
        /\ ~fetched[t].ok
        /\ fc_pc[u] = "fetching"
        /\ cached_consensus.some
        /\ now < last_update

\* C13: a call whose fetch has failed writes neither the cache nor the
\* timestamp, in any of its steps.
C13_FailedFetchWritesNothing ==
    [][\A t \in Tasks :
         (fc_pc[t] \in {"fetched", "install", "stamp"}
              /\ ~fetched[t].ok /\ fc_pc'[t] # fc_pc[t]) =>
             /\ cached_consensus' = cached_consensus
             /\ last_update' = last_update]_vars

\* C13 witness: a call has returned the failure of its fetch while a stale
\* consensus is cached.
C13_Witness ==
    \E t \in Tasks :
        /\ fc_pc[t] = "done"
        /\ ~fc_result[t].ok
        /\ cached_consensus.some
        /\ ~is_consensus_fresh(last_update, now)

\* C14: the cached consensus is absent or has a relay, and a document none of
\* whose records parses is rejected with InvalidConsensus.
C14_CachedConsensusNonEmpty ==
    /\ cached_consensus.some => cached_consensus.relays # {}
    /\ \A doc \in Documents :
           (\A i \in 1..Len(doc) : ~doc[i].ok) =>
               parse_consensus(doc) = FetchErr("InvalidConsensus")

\* C14 witness: a consensus is cached and a call has just had a document
\* rejected with InvalidConsensus.
C14_Witness ==
    /\ cached_consensus.some
    /\ \E t \in Tasks :
           fc_pc[t] = "fetching" /\ fetched[t] = FetchErr("InvalidConsensus")

\* C15: at most one call is fetching from the sources at any time.
C15_AtMostOneFetchInFlight ==
    Cardinality({ t \in Tasks : fc_pc[t] = "fetching" }) <= 1

\* C16: the counter starts at 0 and the nonces the forward key has sealed
\* with are strictly increasing, so no two seals share a nonce.
C16_SealNoncesStrictlyIncreasing ==
    /\ crypto_result = NoCall => forward_nonce = 0
    /\ \A i \in 1..Len(seal_nonces) : seal_nonces[i] < forward_nonce
    /\ \A i, j \in 1..Len(seal_nonces) : i < j => seal_nonces[i] < seal_nonces[j]

\* C16 witness: two seals with a decrypt_forward between them.
C16_Witness ==
    /\ Len(seal_nonces) >= 2
    /\ seal_nonces[1] = 0
    /\ seal_nonces[2] > seal_nonces[1] + 1

\* C17: a call made with the counter at its maximum returns a resource error,
\* leaves the counter where it is and seals nothing.
C17_CounterAtMaxFailsWithResource ==
    [][(forward_nonce = NonceMax /\ crypto_result' # crypto_result) =>
           /\ ~crypto_result'.ok
           /\ crypto_result'.err = "Resource"
           /\ forward_nonce' = forward_nonce
           /\ seal_nonces' = seal_nonces]_vars

\* C18: decrypt_forward of the ciphertext encrypt_forward has just returned,
\* on the same instance, returns the plaintext.
C18_EncryptThenDecryptRoundTrip ==
    [][(/\ crypto_result.op = "encrypt"
        /\ crypto_result.ok
        /\ crypto_result'.op = "decrypt"
        /\ crypto_result'.ct = crypto_result.ct) =>
           /\ crypto_result'.ok
           /\ crypto_result'.plain = crypto_result.plain]_vars

\* The client's method list holds 0x00 (no authentication).
OffersNoAuth == \E i \in 1..Len(client.methods) : client.methods[i] = 0

\* C21: when the method list of a version 5 greeting does not hold method 0
\* (the empty list included), the handshake fails with Unsupported and 05 00
\* is not written; 05 00 is written only when method 0 was offered.
C21_NoAuthAnsweredOnlyWhenOffered ==
    /\ (client.version = SocksVersion /\ ~OffersNoAuth /\ session_pc # "handshake")
         => /\ session_pc = "closed"
            /\ session_err = "Unsupported"
            /\ client_reply = << >>
    /\ client_reply # << >> => OffersNoAuth

\* The session has answered the greeting and read a version 5 request.
RequestRead ==
    /\ session_pc \in {"dispatch", "closed"}
    /\ Len(client_reply) >= 2
    /\ client.req_version = SocksVersion

\* C22: a request with a command other than CONNECT is answered with a
\* SOCKS5 reply of code 7 (05 07 00 ..) before the connection is closed, and
\* no circuit is created for it.
C22_OtherCommandRepliesSeven ==
    (RequestRead /\ client.cmd # SocksCmdConnect)
      => /\ session_pc = "closed"
         /\ Len(client_reply) >= 4
         /\ client_reply[3] = SocksVersion
         /\ client_reply[4] = 7

\* The bytes a dotted decimal host stands for.
RECURSIVE DecimalOctets(_, _, _)
DecimalOctets(chars, k, acc) ==
    IF k > Len(chars) THEN <<acc>>
    ELSE IF chars[k] = 46 THEN <<acc>> \o DecimalOctets(chars, k + 1, 0)
    ELSE DecimalOctets(chars, k + 1, acc * 10 + (chars[k] - 48))

HexValue(ch) == IF ch <= 57 THEN ch - 48 ELSE ch - 87

\* The bytes a host of colon-separated hex groups stands for.
RECURSIVE HexOctets(_, _)
HexOctets(chars, k) ==
    IF k > Len(chars) THEN << >>
    ELSE IF chars[k] = 58 THEN HexOctets(chars, k + 1)
    ELSE <<HexValue(chars[k]) * 16 + HexValue(chars[k + 1])>> \o HexOctets(chars, k + 2)

\* The request is a whole CONNECT request of version 5 with address type 1,
\* 3 or 4, and the greeting before it was answered.
WellFormedConnect ==
    /\ Len(client_reply) >= 2
    /\ client.req_version = SocksVersion
    /\ client.cmd = SocksCmdConnect
    /\ client.atyp \in {1, 3, 4}
    /\ client.cut = 0

\* The bytes of the domain name are valid UTF-8.
DomainIsUtf8 == \A i \in 1..Len(client.addr) : client.addr[i] < 128

\* The host parse_request returned is the address the client sent, the
\* domain names in DomainCases.
TargetIsWhatWasSent(domain_ok) ==
    /\ session_pc = "dispatch"
    /\ stream_pos = Len(client_bytes(client)) - Len(client.extra)
    /\ request.port = client.port
    /\ client.atyp = 1 => DecimalOctets(request.host, 1, 0) = client.addr
    /\ client.atyp = 4 => HexOctets(request.host, 1) = client.addr
    /\ (client.atyp = 3 /\ domain_ok) => request.host = client.addr

\* The requests parse_request refuses: another address type with
\* Unsupported, another version with InvalidVersion.
RefusedAsClaimed ==
    /\ (RequestRead /\ client.cmd = SocksCmdConnect /\ client.atyp \notin {1, 3, 4})
         => session_pc = "closed" /\ session_err = "Unsupported"
    /\ (session_pc \in {"dispatch", "closed"} /\ Len(client_reply) >= 2
        /\ client.req_version # SocksVersion)
         => session_pc = "closed" /\ session_err = "InvalidVersion"

\* C23 as stated: for every well-formed CONNECT request parse_request reads
\* exactly the bytes of the request and returns the target: the L bytes of a
\* domain name, the 4 or 16 address bytes, the port big-endian; another
\* address type fails with Unsupported, another version with InvalidVersion.
C23_ParseRequestYieldsTarget ==
    /\ (WellFormedConnect /\ session_pc # "request") => TargetIsWhatWasSent(TRUE)
    /\ RefusedAsClaimed

\* C23, amended: the same, the host of a domain name being its L bytes when
\* they are valid UTF-8.
C23_ParseRequestYieldsTargetUtf8 ==
    /\ (WellFormedConnect /\ session_pc # "request") => TargetIsWhatWasSent(DomainIsUtf8)
    /\ RefusedAsClaimed

\* The spec's example 05 01 00 03 0B "example.com" 00 50, followed by a byte
\* that is not part of the request, is parsed to example.com:80.
C23_Witness ==
    /\ session_pc = "dispatch"
    /\ client.addr = ExampleDomain
    /\ client.extra # << >>
    /\ request = [host |-> ExampleDomain, port |-> 80]

\* C24: in the relay phase a read or write failure in either copy direction
\* ends the session: handle_client returns, even if the peer of the other
\* direction stays silent and never closes.
C24_FailureEndsSession ==
    (relay_pc = "relay" /\ (c2t_task = "failed" \/ t2c_task = "failed"))
      ~> (relay_pc = "returned")

\* C25: the two copy directions go on independently: a task whose side holds
\* something to read can take its turn whatever the state of the other
\* direction, and the session ends only after both copy tasks have ended.
C25_DirectionsIndependent ==
    /\ (relay_pc = "relay" /\ c2t_task = "running" /\ client_in # "none")
         => ENABLED copy_client_to_target
    /\ (relay_pc = "relay" /\ t2c_task = "running" /\ target_in # "none")
         => ENABLED copy_target_to_client
    /\ relay_pc = "returned" => (c2t_task # "running" /\ t2c_task # "running")

\* Client bytes have reached the target while the target -> client task
\* waits in its first read: the target has sent nothing.
C25_Witness ==
    /\ relay_pc = "relay"
    /\ to_target > 0
    /\ t2c_task = "running"
    /\ target_in = "none"
    /\ to_client = 0

\* The payload holds the length field 64 and at least 64 bytes after it.
HoldsHandshakeData ==
    /\ Len(response_payload) >= 2 + 64
    /\ response_payload[1] = 0
    /\ response_payload[2] = 64

\* C26: from_bytes on a payload that starts with the 2-byte big-endian
\* length 64 followed by at least 64 bytes returns the first 32 of them as
\* the server public key and the next 32 as the auth tag; it returns an error
\* on a payload of less than 2 bytes, on a length field other than 64 and
\* when fewer than 64 bytes follow the length field.
C26_Created2ParsedFromPrefixedPayload ==
    created2 # NoCreated2 =>
      IF HoldsHandshakeData
      THEN /\ created2.ok
           /\ Len(created2.server_public_key) = 32
           /\ Len(created2.auth) = 32
           /\ \A i \in 1..32 :
                /\ created2.server_public_key[i] = response_payload[2 + i]
                /\ created2.auth[i] = response_payload[2 + 32 + i]
      ELSE ~created2.ok

\* A key and a tag behind the length field 64, with the padding of the cell
\* after them, have been parsed.
C26_Witness ==
    /\ created2.ok
    /\ Len(response_payload) = CellLen - CellHeaderLen
    /\ created2.server_public_key # created2.auth

\* C27: from_bytes on a payload of 64 bytes, the 32 bytes of the server
\* public key and the 32 bytes of the auth tag with no length field, returns
\* Ok with that key and that tag.
C27_Created2ParsedFromBarePayload ==
    (created2 # NoCreated2 /\ Len(response_payload) = 64)
      => /\ created2.ok
         /\ created2.server_public_key = SubSeq(response_payload, 1, 32)
         /\ created2.auth = SubSeq(response_payload, 33, 64)

\* The value of four bytes read as a big-endian number.
BigEndian4(bytes, k) ==
    ((bytes[k] * 256 + bytes[k + 1]) * 256 + bytes[k + 2]) * 256 + bytes[k + 3]

\* C28: for every client public key K and circuit id c the CREATE2 cell
\* written to the guard is 514 bytes: c in 4 big-endian bytes, the command
\* byte 10, then at offset 5 the payload of 36 bytes (00 02, 00 20, the 32
\* bytes of K), and zeros up to the end.
C28_Create2CellOnTheWire ==
    cell_written # << >> =>
      /\ Len(cell_written) = 514
      /\ BigEndian4(cell_written, 1) = cell_circ_id
      /\ cell_written[5] = 10
      /\ SubSeq(cell_written, 6, 9) = <<0, 2, 0, 32>>
      /\ SubSeq(cell_written, 10, 41) = client_public_key
      /\ \A i \in 42..514 : cell_written[i] = 0

\* The spec's example: the cell of the key [0xAA; 32], on a circuit whose
\* id takes more than one byte.
C28_Witness ==
    /\ cell_written # << >>
    /\ client_public_key = [i \in 1..32 |-> 170]
    /\ cell_circ_id = 16909060

\* The sum of the bandwidths of the first k relays of the list.
RECURSIVE CumulativeBandwidth(_, _)
CumulativeBandwidth(c, k) ==
    IF k = 0 THEN 0 ELSE CumulativeBandwidth(c, k - 1) + c[k].bandwidth

\* C29: on a non-empty list of total bandwidth W > 0 and a draw d in [0, W),
\* select_weighted returns the first candidate in list order whose cumulative
\* bandwidth is strictly greater than d; a candidate of bandwidth 0 is never
\* returned, and on the bandwidths 1, 2, 3 the draws 0..5 return A, B, B, C,
\* C, C.
C29_FirstCandidateAboveDraw ==
    (sel_draw # -1 /\ CumulativeBandwidth(consensus, Len(consensus)) > 0)
      => /\ sel_draw < CumulativeBandwidth(consensus, Len(consensus))
         /\ sel_result.ok
         /\ sel_result.relay \in 1..Len(consensus)
         /\ CumulativeBandwidth(consensus, sel_result.relay) > sel_draw
         /\ \A j \in 1..(sel_result.relay - 1) :
              CumulativeBandwidth(consensus, j) <= sel_draw
         /\ consensus[sel_result.relay].bandwidth > 0
         /\ (Len(consensus) = 3 /\ \A i \in 1..3 : consensus[i].bandwidth = i)
              => sel_result.relay = <<1, 2, 2, 3, 3, 3>>[sel_draw + 1]

\* The draw 2 on the bandwidths 0, 2, 3: the first relay is passed over and
\* the third returned.
C29_Witness ==
    /\ sel_draw = 2
    /\ Len(consensus) = 3
    /\ consensus[1].bandwidth = 0
    /\ consensus[2].bandwidth = 2
    /\ consensus[3].bandwidth = 3
    /\ sel_result = SelectedRelay(3)

\* The attempts of the call of t so far are the hours from that of the call
\* back, one hour a step, and none but the last has succeeded.
TriedInOrder(t) ==
    /\ Len(tried[t]) <= MaxHourOffsets
    /\ \A i \in 1..Len(tried[t]) :
         /\ tried[t][i].hour = (fetch_now[t] \div 3600) - (i - 1)
         /\ i < Len(tried[t]) => ~tried[t][i].ok

\* C30: a refresh asks for the hourly objects in order of decreasing recency
\* from the current UTC hour on, stops at the first attempt that downloads
\* and parses to a non-empty consensus, makes at most 48 (here
\* MaxHourOffsets) attempts and returns RequestFailed when all of them have
\* failed, whatever the failures were.
C30_WalksBackFromCurrentHour ==
    \A t \in Tasks :
        /\ TriedInOrder(t)
        /\ (fc_pc[t] = "fetching" /\ tried[t] # << >>)
             => ~tried[t][Len(tried[t])].ok /\ Len(tried[t]) < MaxHourOffsets
        /\ (fc_pc[t] = "fetched" /\ use_real_consensus)
             => IF tried[t][Len(tried[t])].ok
                THEN fetched[t].ok /\ fetched[t].relays # {}
                ELSE /\ Len(tried[t]) = MaxHourOffsets
                     /\ fetched[t] = FetchErr("RequestFailed")

\* A refresh has given up after MaxHourOffsets attempts, from the hour of the
\* call back, while the clock has moved on to another hour.
C30_Witness ==
    \E t \in Tasks :
        /\ fc_pc[t] = "fetched"
        /\ Len(tried[t]) = MaxHourOffsets
        /\ fetched[t] = FetchErr("RequestFailed")
        /\ tried[t][1].hour = 1
        /\ tried[t][MaxHourOffsets].hour = 2 - MaxHourOffsets
        /\ now \div 3600 # 1

\* The create_circuit call of t waits for its relay: for the connection, for
\* the write of its cell or for the response.
HandshakeWaits(t) == pc[t] \in {"hs_connect", "hs_write", "hs_read"}

\* C31: the lock of the circuit map is not held while a handshake waits for
\* the network: while a create_circuit call waits for its relay, a
\* get_circuit_state call can take the read lock, and a create_circuit call
\* for another circuit that has its hops can store its circuit.
C31_MapLockFreeWhileHandshakeWaits ==
    \A t \in Tasks :
        HandshakeWaits(t)
          => /\ circuits_lock = "free"
             /\ \A u \in Tasks \ {t} :
                  (pc[u] = "select" /\ Len(hops[u]) = num_hops[u])
                    => ENABLED create_circuit_store(u)

\* The response the call of t has to read carries the id of its circuit, the
\* command CREATED2 and the auth value the client derives.
ResponseMatches(t) ==
    /\ pc[t] = "hs_read"
    /\ wire[t].io = "data"
    /\ wire[t].circ_id = circuit_id[t]
    /\ wire[t].command = CELL_COMMAND_CREATED2
    /\ wire[t].auth_ok

\* C32: the keying state of a hop of a stored circuit changes only in the step
\* of a handshake of that circuit that reads a response with the circuit's
\* id, the command CREATED2 and a matching auth value, and then the first hop
\* takes the keys of the handshake (from_ntor_keys, counters at 0); in every
\* other step, every other outcome of a handshake included, the hops of the
\* circuit are what they were.
C32_KeyedOnlyByMatchingResponse ==
    [][\A id \in DOMAIN circuits :
         circuits'[id].hops # circuits[id].hops
           => /\ \E t \in Tasks : ResponseMatches(t) /\ circuit_id[t] = id
              /\ ~circuits[id].hops[1].keyed
              /\ circuits'[id].hops = [circuits[id].hops EXCEPT ![1].keyed = TRUE]]_vars

\* One call has keyed the first hop of its circuit, and another has returned
\* from a response whose auth value did not match, its hop as it was.
C32_Witness ==
    \E t, u \in Tasks :
        /\ pc[t] = "mark_ready"
        /\ circuits[circuit_id[t]].hops[1].keyed
        /\ pc[u] = "returned"
        /\ result[u] = ErrResult("HandshakeFailed", "Invalid auth value from relay")
        /\ circuits[circuit_id[u]].hops[1] = RelayHop(circuits[circuit_id[u]].hops[1].relay)

\* C33: a call of encrypt_forward or decrypt_forward that returns Ok has
\* advanced the counter by exactly 1, and a call that returns an error (a
\* ciphertext whose tag does not verify, for one) has left it where it was.
C33_OnlySuccessAdvancesCounter ==
    [][IF crypto_result'.ok
       THEN forward_nonce' = forward_nonce + 1
       ELSE forward_nonce' = forward_nonce]_vars

\* The cached snapshot and the timestamp were written by the same refresh:
\* by the same call, which is not between its two writes.
SameRefresh ==
    /\ consensus_from = last_update_from
    /\ consensus_from \in Tasks => fc_pc[consensus_from] # "stamp"

\* A call is between its fetch and the end of its writes.
Refreshing(t) == fc_pc[t] \in {"fetching", "fetched", "install", "stamp"}

\* C34: a refresh is atomic for the readers: a fetch_consensus call that is
\* served from the cache finds a snapshot and a timestamp of the same
\* refresh, and when no refresh is under way the snapshot and the timestamp
\* in the cache come from the same refresh.
C34_RefreshAtomic ==
    [][/\ \A t \in Tasks :
            (fc_pc[t] = "idle" /\ fc_pc'[t] = "done") => SameRefresh
       /\ (\A t \in Tasks : ~Refreshing(t)) => SameRefresh]_vars

\* The suitability rules as the claim states them: guard, middle, exit.
GuardRule(F) == {"Guard", "Fast", "Running", "Valid"} \subseteq F /\ "BadExit" \notin F

ExitRule(F) == {"Exit", "Fast"} \subseteq F /\ "BadExit" \notin F

MiddleRule(F) ==
    /\ "BadExit" \notin F
    /\ \/ {"Middle", "Fast"} \subseteq F
       \/ {"Fast", "Stable"} \subseteq F /\ "Guard" \notin F /\ "Exit" \notin F

\* The flags of the relay is_relay_suitable was called on.
CalledFlags == consensus[1].flags

\* C35 as stated: for every flag set, hop 0 accepts it iff it has Guard, Fast,
\* Running and Valid and lacks BadExit, the exit hop iff it has Exit and Fast
\* and lacks BadExit, a middle hop iff it lacks BadExit and has Middle and
\* Fast, or Fast and Stable and neither Guard nor Exit.
C35_SuitableAsTheRules ==
    /\ sel_hop = 0 => (suitable <=> GuardRule(CalledFlags))
    /\ sel_hop = 1 => (suitable <=> MiddleRule(CalledFlags))
    /\ sel_hop = 2 => (suitable <=> ExitRule(CalledFlags))

\* C35 amended: the exit hop and a middle hop accept a flag set only if it
\* has Running and Valid as well.
C35_SuitableAsTheRulesRunningValid ==
    /\ sel_hop = 0 => (suitable <=> GuardRule(CalledFlags))
    /\ sel_hop = 1
         => (suitable <=> (MiddleRule(CalledFlags)
                           /\ {"Running", "Valid"} \subseteq CalledFlags))
    /\ sel_hop = 2
         => (suitable <=> (ExitRule(CalledFlags)
                           /\ {"Running", "Valid"} \subseteq CalledFlags))

\* A relay with Exit and Fast that is not Running has been refused as exit.
C35_Witness ==
    /\ CalledFlags = {"Exit", "Fast", "Valid"}
    /\ sel_hop = 2
    /\ suitable = FALSE

\* The lines of the record whose "r " line is at index at: the lines after it
\* up to the next "r " line or the end.
OwnLines(at) ==
    { k \in (at + 1)..(Len(lines) - 1) :
        \A m \in (at + 1)..k : line_at(lines, m).kind # "r" }

\* C36: a relay takes its bandwidth from a "w Bandwidth=" line of its own
\* record only: a record without such a line before the next "r " line has
\* the default 1,000,000, whatever the lines of the next record are.
C36_BandwidthFromOwnRecord ==
    \A id \in DOMAIN relay_map :
        LET at == relay_map[id].at IN
          IF \E k \in OwnLines(at) : parse_bandwidth(line_at(lines, k)) # 0
          THEN \E k \in OwnLines(at) :
                 relay_map[id].bandwidth = parse_bandwidth(line_at(lines, k))
          ELSE relay_map[id].bandwidth = DefaultBandwidth

\* Indices of the "r " lines of the document, and of the well-formed ones.
RLines == { k \in 0..(Len(lines) - 1) : line_at(lines, k).kind = "r" }

WellFormedRLines == { k \in RLines : line_at(lines, k).ok }

\* C37: a malformed "r " record is passed over and the parse goes on: when
\* parse_consensus is through the document, every well-formed "r " record,
\* wherever it stands among malformed records and other lines, is in the
\* relay map under its identity (the entry being that of the last record of
\* that identity), nothing else is, and the call fails only when the
\* document has no well-formed record.
C37_MalformedRecordsSkipped ==
    parse_pc = "done"
      => /\ \A k \in WellFormedRLines :
              /\ line_at(lines, k).id \in DOMAIN relay_map
              /\ relay_map[line_at(lines, k).id].at >= k
              /\ relay_map[line_at(lines, k).id].at \in WellFormedRLines
              /\ line_at(lines, relay_map[line_at(lines, k).id].at).id = line_at(lines, k).id
         /\ DOMAIN relay_map = { line_at(lines, k).id : k \in WellFormedRLines }
         /\ parse_result.ok <=> WellFormedRLines # {}
         /\ parse_result.ok => parse_result.relays = DOMAIN relay_map

\* A document of a malformed record between two well-formed ones has been
\* parsed: both are in the map.
C37_Witness ==
    /\ parse_pc = "done"
    /\ Len(lines) = 3
    /\ line_at(lines, 0) = Line("r", "A", TRUE, 0)
    /\ line_at(lines, 1) = Line("r", "A", FALSE, 0)
    /\ line_at(lines, 2) = Line("r", "B", TRUE, 0)
    /\ DOMAIN relay_map = {"A", "B"}
    /\ relay_map["B"].at = 2

\* C38: parse_consensus comes to its end on every document: the index never
\* goes down, not in parse_relay either, every pass of the outer loop leaves
\* it greater than it was, every "r " line is handed to parse_relay once and
\* no other line is.
C38_ParseTerminates ==
    /\ [][/\ line_i' >= line_i
          /\ (parse_pc' = "loop" /\ parse_pc # "idle") => line_i' > line_i
          /\ parse_pc' = "skip" => line_i' <= line_i + 1]_vars
    /\ [](/\ \A m, n \in 1..Len(handed) : m < n => handed[m] < handed[n]
          /\ \A m \in 1..Len(handed) : handed[m] \in RLines
          /\ parse_pc = "done" => { handed[m] : m \in 1..Len(handed) } = RLines)
    /\ <>(parse_pc = "done")

\* A document of a record with its "s " line and a record right after it has
\* been parsed: parse_relay has moved the index for the first and was handed
\* both.
C38_Witness ==
    /\ parse_pc = "done"
    /\ Len(lines) = 3
    /\ line_at(lines, 1).kind = "s"
    /\ handed = <<0, 2>>
    /\ "A" \in DOMAIN relay_map
    /\ relay_map["A"].flags_at = 1

\* s is a prefix of the first n elements of t.
IsPrefixOfRead(s, t, n) ==
    /\ Len(s) <= n
    /\ n <= Len(t)
    /\ \A i \in 1..Len(s) : s[i] = t[i]

\* C39: in each direction of the bridge the bytes written to the destination
\* are at every moment a prefix of the bytes read from the source, in their
\* order, none dropped, doubled or moved; no byte of one direction appears
\* in the other.
C39_WrittenPrefixOfRead ==
    \A d \in Directions :
        /\ IsPrefixOfRead(bridge[d].dst, bridge[d].src, bridge[d].rd)
        /\ \A e \in Directions \ {d} :
             \A i \in 1..Len(bridge[d].dst) : bridge[d].dst[i] \notin SourceBytes(e)

\* Both directions have carried two different bytes, the client's in two
\* reads, the target's in one read that write_all wrote in two writes, while
\* the buffer of the client's direction still holds the byte of its first
\* read.
C39_Witness ==
    /\ bridge["client_to_target"].src = <<1, 2>>
    /\ bridge["client_to_target"].dst = <<1, 2>>
    /\ bridge["client_to_target"].buf[1] = 2
    /\ bridge["client_to_target"].buf[2] = 0
    /\ bridge["target_to_client"].src = <<4, 3>>
    /\ bridge["target_to_client"].buf[1] = 4
    /\ bridge["target_to_client"].buf[2] = 3
    /\ bridge["target_to_client"].dst = <<4>>
    /\ bridge["target_to_client"].wr = 1

\* C40: every circuit stored in the manager has at least one hop: a
\* create_circuit call with num_hops = 0 stores no circuit record and does
\* not abort its task.
C40_StoredCircuitHasAHop ==
    /\ \A id \in DOMAIN circuits : Len(circuits[id].hops) >= 1
    /\ \A t \in Tasks : num_hops[t] = 0 => pc[t] \notin {"handshake", "panicked"}

====
